---- MODULE Spec2Model ----
(***************************************************************************)
(* FeatherFlap runtime coordination layer.                                 *)
(*                                                                         *)
(*   ModeRegistry            src/src/featherflap/runtime/mode.py           *)
(*   CameraUsageCoordinator  src/src/featherflap/runtime/camera.py         *)
(*   RunModeController       src/src/featherflap/runtime/controller.py     *)
(*                                                                         *)
(* Every thread or process is a small program counter machine; one action  *)
(* is one step of the Python code between two points where another thread  *)
(* or process can run.                                                     *)
(***************************************************************************)
EXTENDS Integers, FiniteSets, Sequences, TLC

(***************************************************************************)
(* Bounds of the model.                                                    *)
(***************************************************************************)
\* Number of FeatherFlap processes that contend for the mode file.
NumProcs == 2

\* The configured recording_min_gap_seconds.
RecordingMinGap == 2
\* How many seconds the clock of the run-mode process advances.
MaxTicks == 2
\* The longest `windows` list handed to a SleepScheduler.
MaxWindows == 2
\* How many record_sample calls a BatteryEstimator history holds.
MaxSamples == 2

\* max(self._settings.recording_min_gap_seconds, 120)
FallbackFloor == 120

Pids == 1..NumProcs
\* A pid recorded by an earlier run whose process no longer exists.
StalePid == NumProcs + 1
\* A pid of a live process owned by another user: os.kill raises PermissionError.
ForeignPid == NumProcs + 2

\* OperationMode (config.py)
Modes == {"test", "run"}

\* Threads of RunModeController._record_motion ("featherflap-record").
RecThreads == {"rec1", "rec2"}
\* Request handlers that take the camera: camera_frame and camera_stream.
Http == {"frame", "stream"}
\* Threads of RunModeController._motion_loop ("featherflap-motion").
Loops == {"loop1", "loop2"}
\* The thread that runs the startup and shutdown hooks of the application.
Ctl == {"main"}
\* threads that call start() and stop() on one controller at the same time
Callers == {"main", "other"}
\* Everyone who calls CameraUsageCoordinator.acquire.
Clients == RecThreads \cup Http
\* The purpose tags in use.
Purposes == {"record", "snapshot", "stream"}

VARIABLES
    \* ---- ModeRegistry --------------------------------------------------
    file,        \* content of MODE_FILE
    ppc,         \* per process: position inside acquire / release
    call,        \* per process: the ModeRegistry method being run
    req,         \* per process: the mode argument of the running acquire
    acquired,    \* per process: ModeRegistry._acquired
    last,        \* per process: how its last acquire ended; a Conflict error
                 \* is kept as the record (mode, pid) its message names
    opMode,      \* per process: app.state.operation_mode ("-" when not set)
    alive,       \* per process: the process exists
    \* ---- CameraUsageCoordinator and its leases -------------------------
    lockHeld,    \* CameraUsageCoordinator._lock is locked
    purpose,     \* CameraUsageCoordinator._purpose ("none" for None)
    cam,         \* per client: position inside acquire / lease.release
    leasePurpose,\* per client: the purpose argument / _CameraLease._purpose
    blocking,    \* per client: the blocking argument of the running acquire
    released     \* per client: _CameraLease._released of the lease it was given

VARIABLES
    \* ---- RunModeController ---------------------------------------------
    stopEvent,         \* self._stop_event is set
    motionThread,      \* self._motion_thread ("none" for None)
    recordingThread,   \* self._recording_thread ("none" for None)
    recLock,           \* owner of self._recording_lock ("none" when free)
    recordingActive,   \* self._recording_active
    lastRecordingEnd,  \* self._last_recording_end
    recordingPath,     \* self._recording_path (0 for None, else the time in its name)
    gpio,              \* self._gpio is not None
    hasPir,            \* settings.pir_pins is not empty and RPi.GPIO imports
    sleepWindows,      \* self._scheduler._windows
    clock,             \* time.time()
    spc,               \* per lifecycle thread: position inside start / stop
    mpc,               \* per motion thread: position inside _motion_loop / _handle_motion
    mnow,              \* per motion thread: the local `now` of _handle_motion
    rpc,               \* per recording thread: position inside _record_motion
    rpath,             \* per recording thread: the time in its local `path` (0 before it is read)
    rresult            \* per recording thread: how record_video ended and what is left at `path`

varsCtl == <<stopEvent, motionThread, recordingThread, recLock, recordingActive,
             lastRecordingEnd, recordingPath, gpio, hasPir, sleepWindows, clock,
             spc, mpc, mnow, rpc, rpath, rresult>>

varsMode == <<file, ppc, call, req, acquired, last, opMode, alive>>

varsCam == <<lockHeld, purpose, cam, leasePurpose, blocking, released>>

VARIABLES
    \* ---- a SleepScheduler on its own ------------------------------------
    swConfig,    \* the `windows` argument of SleepScheduler.__init__
    swState,     \* "new" before __init__, "built" after it, "raised" if it raised
    swWindows,   \* SleepScheduler._windows
    swNow,       \* the `now` of the last is_sleep_time call (0 before the first call)
    swAnswer     \* what that call returned

varsSleep == <<swConfig, swState, swWindows, swNow, swAnswer>>

VARIABLES
    \* ---- a BatteryEstimator and its state file --------------------------
    bFile,       \* content of battery_state.json
    bObj,        \* "new" before __init__, "ready" after it, "raised" if it raised
    bState,      \* BatteryEstimator.state
    bCall,       \* the arguments of the last record_sample call, and the
                 \* state it started from
    bOut         \* how that call ended, and the BatteryEstimate it returned

varsBat == <<bFile, bObj, bState, bCall, bOut>>

\* the library objects that run outside the coordination layer
varsLib == <<varsSleep, varsBat>>

vars == <<varsMode, varsCam, varsCtl, varsLib>>

(***************************************************************************)
(* MODE_FILE contents.                                                     *)
(***************************************************************************)
NoFile  == [kind |-> "none", mode |-> "-", pid |-> 0]
\* Anything json.loads rejects with JSONDecodeError, the empty file included.
Corrupt == [kind |-> "corrupt", mode |-> "-", pid |-> 0]
\* Bytes that read_text cannot decode (UnicodeDecodeError), or JSON that is
\* not an object, such as 7 (AttributeError at existing.get): neither is a
\* JSONDecodeError.
Unreadable == [kind |-> "unreadable", mode |-> "-", pid |-> 0]
Record(m, p) == [kind |-> "rec", mode |-> m, pid |-> p]

\* Outcomes of acquire other than a Conflict error.
Outcome(o) == [kind |-> o, mode |-> "-", pid |-> 0]

\* os.kill(pid, 0)
KillOutcome(pid) ==
    IF pid \in Pids THEN (IF alive[pid] THEN "ok" ELSE "esrch")
    ELSE IF pid = ForeignPid THEN "eperm"
    ELSE "esrch"

\* _pid_alive with PermissionError taken as "no such process"
PidAlive_PermDead(pid) == KillOutcome(pid) = "ok"

\* _pid_alive
PidAlive(pid) ==
    CASE KillOutcome(pid) = "esrch" -> FALSE
      [] KillOutcome(pid) = "eperm" -> TRUE
      [] OTHER -> TRUE

\* the payload dict of acquire (the timestamp is not modelled)
Payload(p) == Record(req[p], p)

(***************************************************************************)
(* ModeRegistry.acquire, after _read() returned e.                         *)
(***************************************************************************)
\* the chain with the mode comparison ahead of the liveness probe
AcquireBranch_ModeFirst(p, e) ==
    CASE e.kind = "none" -> "write"
      [] e.mode # req[p] -> "conflict"
      [] e.pid # 0 /\ ~PidAlive(e.pid) -> "stale"
      [] e.mode = req[p] /\ e.pid = p -> "reentrant"
      [] OTHER -> "write"

\* the chain without its last elif
AcquireBranch_NoReentrant(p, e) ==
    CASE e.kind = "none" -> "write"
      [] e.pid # 0 /\ ~PidAlive(e.pid) -> "stale"
      [] e.mode # req[p] -> "conflict"
      [] OTHER -> "write"

\* the branch of the if / elif / elif chain taken for the record e
AcquireBranch(p, e) ==
    CASE e.kind = "none" -> "write"
      [] e.pid # 0 /\ ~PidAlive(e.pid) -> "stale"
      [] e.mode # req[p] -> "conflict"
      [] e.mode = req[p] /\ e.pid = p -> "reentrant"
      [] OTHER -> "write"

\* The chain itself. The liveness probe only observes, so it is taken in the
\* same step as the read whose result it follows.
AcquireDecide(p, e) ==
    LET b == AcquireBranch(p, e) IN
    CASE b = "stale" ->
           \* logger.warning("Removing stale mode file for inactive pid %s")
           /\ ppc' = [ppc EXCEPT ![p] = "stale_unlink"]
           /\ last' = [last EXCEPT ![p] = Outcome("stale")]
           /\ UNCHANGED <<acquired, opMode, call, req>>
      [] b = "conflict" ->
           \* raise RuntimeError("... already running in {mode} mode (pid=...)")
           /\ last' = [last EXCEPT ![p] = e]
           /\ ppc' = [ppc EXCEPT ![p] = "idle"]
           /\ call' = [call EXCEPT ![p] = "none"]
           /\ req' = [req EXCEPT ![p] = "-"]
           /\ UNCHANGED <<acquired, opMode>>
      [] b = "reentrant" ->
           /\ acquired' = [acquired EXCEPT ![p] = TRUE]
           /\ last' = [last EXCEPT ![p] = Outcome("ok_again")]
           /\ opMode' = [opMode EXCEPT ![p] = req[p]]
           /\ ppc' = [ppc EXCEPT ![p] = "idle"]
           /\ call' = [call EXCEPT ![p] = "none"]
           /\ req' = [req EXCEPT ![p] = "-"]
      [] OTHER ->
           /\ ppc' = [ppc EXCEPT ![p] = "write_open"]
           /\ UNCHANGED <<last, acquired, opMode, call, req>>

(***************************************************************************)
(* ModeRegistry.release, after _read() returned e.                         *)
(***************************************************************************)
\* if data and data.get("pid") != self._pid: self._acquired = False; return
ReleaseDecide(p, e) ==
    /\ IF e.kind = "rec" /\ e.pid # p
       THEN /\ acquired' = [acquired EXCEPT ![p] = FALSE]
            /\ opMode' = [opMode EXCEPT ![p] = "-"]
            /\ last' = [last EXCEPT ![p] = Outcome("none")]
            /\ ppc' = [ppc EXCEPT ![p] = "idle"]
            /\ call' = [call EXCEPT ![p] = "none"]
       ELSE /\ ppc' = [ppc EXCEPT ![p] = "release_unlink"]
            /\ UNCHANGED <<acquired, opMode, last, call>>
    /\ UNCHANGED req

\* the caller of _read() goes on with what it returned
AfterRead(p, e) ==
    IF call[p] = "acquire" THEN AcquireDecide(p, e) ELSE ReleaseDecide(p, e)

(***************************************************************************)
(* ModeRegistry._read, shared by acquire and release.                      *)
(***************************************************************************)
\* self._path.exists()
ReadExists(p) ==
    /\ alive[p] /\ ppc[p] = "read_exists"
    /\ IF file.kind = "none"
       THEN AfterRead(p, NoFile)
       ELSE /\ ppc' = [ppc EXCEPT ![p] = "read_text"]
            /\ UNCHANGED <<call, req, acquired, last, opMode>>
    /\ UNCHANGED <<file, alive>>

\* json.loads(self._path.read_text())
ReadText(p) ==
    /\ alive[p] /\ ppc[p] = "read_text"
    /\ CASE file.kind = "none" ->
              \* the file vanished after exists(): FileNotFoundError leaves the method
              /\ ppc' = [ppc EXCEPT ![p] = "idle"]
              /\ last' = [last EXCEPT ![p] = IF call[p] = "acquire" THEN Outcome("oserror") ELSE @]
              /\ call' = [call EXCEPT ![p] = "none"]
              /\ req' = [req EXCEPT ![p] = "-"]
              /\ UNCHANGED <<acquired, opMode>>
         [] file.kind = "corrupt" ->
              /\ ppc' = [ppc EXCEPT ![p] = "read_unlink"]
              /\ UNCHANGED <<call, req, acquired, last, opMode>>
         [] file.kind = "unreadable" ->
              \* only JSONDecodeError is caught: the error leaves the method
              /\ ppc' = [ppc EXCEPT ![p] = "idle"]
              /\ last' = [last EXCEPT ![p] = IF call[p] = "acquire" THEN Outcome("valueerror") ELSE @]
              /\ call' = [call EXCEPT ![p] = "none"]
              /\ req' = [req EXCEPT ![p] = "-"]
              /\ UNCHANGED <<acquired, opMode>>
         [] OTHER ->
              AfterRead(p, file)
    /\ UNCHANGED <<file, alive>>

\* except json.JSONDecodeError: self._path.unlink(missing_ok=True); return None
ReadUnlink(p) ==
    /\ alive[p] /\ ppc[p] = "read_unlink"
    /\ file' = NoFile
    /\ AfterRead(p, NoFile)
    /\ UNCHANGED alive

(***************************************************************************)
(* ModeRegistry.acquire                                                    *)
(***************************************************************************)
\* create_application: mode_registry.acquire(settings.mode)
AcquireCall(p, m) ==
    /\ alive[p] /\ ppc[p] = "idle"
    /\ call' = [call EXCEPT ![p] = "acquire"]
    /\ req' = [req EXCEPT ![p] = m]
    /\ last' = [last EXCEPT ![p] = Outcome("pending")]
    /\ ppc' = [ppc EXCEPT ![p] = "read_exists"]
    /\ UNCHANGED <<file, acquired, opMode, alive>>

\* self._path.unlink(missing_ok=True) for a stale record
StaleUnlink(p) ==
    /\ alive[p] /\ ppc[p] = "stale_unlink"
    /\ file' = NoFile
    /\ ppc' = [ppc EXCEPT ![p] = "write_open"]
    /\ UNCHANGED <<call, req, acquired, last, opMode, alive>>

\* write_text, first half: open(mode="w") truncates the file
WriteOpen(p) ==
    /\ alive[p] /\ ppc[p] = "write_open"
    /\ file' = Corrupt
    /\ ppc' = [ppc EXCEPT ![p] = "write_data"]
    /\ UNCHANGED <<call, req, acquired, last, opMode, alive>>

\* write_text, second half, then self._acquired = True; atexit.register
WriteData(p) ==
    /\ alive[p] /\ ppc[p] = "write_data"
    /\ file' = Payload(p)
    /\ acquired' = [acquired EXCEPT ![p] = TRUE]
    /\ last' = [last EXCEPT ![p] = IF @ = Outcome("stale") THEN Outcome("ok_stale")
                                   ELSE Outcome("ok")]
    /\ opMode' = [opMode EXCEPT ![p] = req[p]]
    /\ ppc' = [ppc EXCEPT ![p] = "idle"]
    /\ call' = [call EXCEPT ![p] = "none"]
    /\ req' = [req EXCEPT ![p] = "-"]
    /\ UNCHANGED alive

(***************************************************************************)
(* ModeRegistry.release                                                    *)
(***************************************************************************)
\* a release() without its first test
ReleaseCall_Unchecked(p) ==
    /\ alive[p] /\ ppc[p] = "idle"
    /\ call' = [call EXCEPT ![p] = "release"]
    /\ ppc' = [ppc EXCEPT ![p] = "read_exists"]
    /\ last' = [last EXCEPT ![p] = Outcome("none")]
    /\ UNCHANGED <<file, req, acquired, opMode, alive>>

\* release(): if not self._acquired: return
ReleaseCall(p) ==
    /\ alive[p] /\ ppc[p] = "idle"
    /\ IF acquired[p]
       THEN /\ call' = [call EXCEPT ![p] = "release"]
            /\ ppc' = [ppc EXCEPT ![p] = "read_exists"]
            /\ last' = [last EXCEPT ![p] = Outcome("none")]
       ELSE UNCHANGED <<call, ppc, last>>
    /\ UNCHANGED <<file, req, acquired, opMode, alive>>

\* self._path.unlink(missing_ok=True); self._acquired = False
ReleaseUnlink(p) ==
    /\ alive[p] /\ ppc[p] = "release_unlink"
    /\ file' = NoFile
    /\ acquired' = [acquired EXCEPT ![p] = FALSE]
    /\ opMode' = [opMode EXCEPT ![p] = "-"]
    /\ last' = [last EXCEPT ![p] = Outcome("none")]
    /\ ppc' = [ppc EXCEPT ![p] = "idle"]
    /\ call' = [call EXCEPT ![p] = "none"]
    /\ UNCHANGED <<req, alive>>

(***************************************************************************)
(* Process lifetime.                                                       *)
(***************************************************************************)
\* The process is gone: its pid no longer exists and its memory is lost.
Gone(p) ==
    /\ alive' = [alive EXCEPT ![p] = FALSE]
    /\ ppc' = [ppc EXCEPT ![p] = "gone"]
    /\ call' = [call EXCEPT ![p] = "none"]
    /\ req' = [req EXCEPT ![p] = "-"]
    /\ acquired' = [acquired EXCEPT ![p] = FALSE]
    /\ last' = [last EXCEPT ![p] = Outcome("none")]
    /\ opMode' = [opMode EXCEPT ![p] = "-"]
    /\ UNCHANGED file

\* Normal interpreter exit once the shutdown hook / atexit release has run
\* (release is a no-op from then on, see ReleaseCall).
Exit(p) ==
    /\ alive[p] /\ ppc[p] = "idle" /\ ~acquired[p]
    /\ Gone(p)

\* SIGKILL or power loss at any point: no release runs, the file stays as it is.
Crash(p) ==
    /\ alive[p]
    /\ Gone(p)

\* What an earlier run can have left at MODE_FILE.
InitFiles == {NoFile, Corrupt, Unreadable} \cup {Record(m, p) : m \in Modes, p \in {StalePid, ForeignPid}}

\* ModeRegistry() in every process, with MODE_FILE as an earlier run left it
ModeInit(f) ==
    /\ file = f
    /\ ppc = [p \in Pids |-> "idle"]
    /\ call = [p \in Pids |-> "none"]
    /\ req = [p \in Pids |-> "-"]
    /\ acquired = [p \in Pids |-> FALSE]
    /\ last = [p \in Pids |-> Outcome("none")]
    /\ opMode = [p \in Pids |-> "-"]
    /\ alive = [p \in Pids |-> TRUE]

NextMode ==
    \/ \E p \in Pids, m \in Modes : AcquireCall(p, m) /\ UNCHANGED <<varsCam, varsCtl, varsLib>>
    \/ \E p \in Pids : ReadExists(p) /\ UNCHANGED <<varsCam, varsCtl, varsLib>>
    \/ \E p \in Pids : ReadText(p) /\ UNCHANGED <<varsCam, varsCtl, varsLib>>
    \/ \E p \in Pids : ReadUnlink(p) /\ UNCHANGED <<varsCam, varsCtl, varsLib>>
    \/ \E p \in Pids : StaleUnlink(p) /\ UNCHANGED <<varsCam, varsCtl, varsLib>>
    \/ \E p \in Pids : WriteOpen(p) /\ UNCHANGED <<varsCam, varsCtl, varsLib>>
    \/ \E p \in Pids : WriteData(p) /\ UNCHANGED <<varsCam, varsCtl, varsLib>>
    \/ \E p \in Pids : ReleaseCall(p) /\ UNCHANGED <<varsCam, varsCtl, varsLib>>
    \/ \E p \in Pids : ReleaseUnlink(p) /\ UNCHANGED <<varsCam, varsCtl, varsLib>>
    \/ \E p \in Pids : Exit(p) /\ UNCHANGED <<varsCam, varsCtl, varsLib>>
    \/ \E p \in Pids : Crash(p) /\ UNCHANGED <<varsCam, varsCtl, varsLib>>

(***************************************************************************)
(* CameraUsageCoordinator.acquire                                          *)
(***************************************************************************)
\* a client calls acquire(purpose, blocking=b)
CamCall(c, pu, b) ==
    /\ cam[c] = "idle"
    /\ cam' = [cam EXCEPT ![c] = "acquire"]
    /\ leasePurpose' = [leasePurpose EXCEPT ![c] = pu]
    /\ blocking' = [blocking EXCEPT ![c] = b]
    /\ UNCHANGED <<lockHeld, purpose, released>>

\* a lock whose non-blocking acquire never refuses
TryLock_Ignored == TRUE

\* a lock whose non-blocking acquire always refuses
TryLock_Never == FALSE

\* threading.Lock.acquire(blocking=False) returns True
TryLock == ~lockHeld

\* a lock whose blocking acquire returns at once
LockFree_Always == TRUE

\* threading.Lock.acquire() can return
LockFree == ~lockHeld

\* self._lock.acquire() / self._lock.acquire(blocking=False)
CamLock(c) ==
    /\ cam[c] = "acquire"
    /\ IF blocking[c]
       THEN \* waits until the lock is free
            /\ LockFree
            /\ lockHeld' = TRUE
            /\ cam' = [cam EXCEPT ![c] = "set_purpose"]
            /\ UNCHANGED <<leasePurpose, blocking>>
       ELSE IF TryLock
            THEN /\ lockHeld' = TRUE
                 /\ cam' = [cam EXCEPT ![c] = "set_purpose"]
                 /\ UNCHANGED <<leasePurpose, blocking>>
            ELSE \* raise CameraBusyError
                 /\ cam' = [cam EXCEPT ![c] = "busy"]
                 /\ leasePurpose' = [leasePurpose EXCEPT ![c] = "none"]
                 /\ blocking' = [blocking EXCEPT ![c] = FALSE]
                 /\ UNCHANGED lockHeld
    /\ UNCHANGED <<purpose, released>>

\* self._purpose = purpose; return _CameraLease(self, purpose)
CamSetPurpose(c) ==
    /\ cam[c] = "set_purpose"
    /\ purpose' = leasePurpose[c]
    /\ released' = [released EXCEPT ![c] = FALSE]
    /\ cam' = [cam EXCEPT ![c] = "leased"]
    /\ blocking' = [blocking EXCEPT ![c] = FALSE]
    /\ UNCHANGED <<lockHeld, leasePurpose>>

(***************************************************************************)
(* _CameraLease.release and CameraUsageCoordinator._release                *)
(***************************************************************************)
\* a release() that does not look at self._released
LeaseRelease_Unguarded(c) ==
    /\ cam[c] \in {"leased", "released"}
    /\ cam' = [cam EXCEPT ![c] = "rel_clear"]
    /\ UNCHANGED <<lockHeld, purpose, leasePurpose, blocking, released>>

\* lease.release(): if self._released: return; else enter owner._release
LeaseRelease(c) ==
    /\ cam[c] \in {"leased", "released"}
    /\ IF released[c]
       THEN UNCHANGED cam
       ELSE cam' = [cam EXCEPT ![c] = "rel_clear"]
    /\ UNCHANGED <<lockHeld, purpose, leasePurpose, blocking, released>>

\* a _release that leaves self._purpose as it is
CamReleaseClear_KeepsPurpose(c) ==
    /\ cam[c] = "rel_clear"
    /\ cam' = [cam EXCEPT ![c] = "rel_unlock"]
    /\ UNCHANGED <<lockHeld, purpose, leasePurpose, blocking, released>>

\* if self._purpose != purpose: warn; self._purpose = None
CamReleaseClear(c) ==
    /\ cam[c] = "rel_clear"
    /\ purpose' = "none"
    /\ cam' = [cam EXCEPT ![c] = "rel_unlock"]
    /\ UNCHANGED <<lockHeld, leasePurpose, blocking, released>>

\* a _release that forgets self._lock.release()
CamReleaseUnlock_KeepsLock(c) ==
    /\ cam[c] = "rel_unlock"
    /\ released' = [released EXCEPT ![c] = TRUE]
    /\ cam' = [cam EXCEPT ![c] = "released"]
    /\ UNCHANGED <<lockHeld, purpose, leasePurpose, blocking>>

\* self._lock.release(), then back in the lease: self._released = True
CamReleaseUnlock(c) ==
    /\ cam[c] = "rel_unlock"
    /\ lockHeld' = FALSE
    /\ released' = [released EXCEPT ![c] = TRUE]
    /\ cam' = [cam EXCEPT ![c] = "released"]
    /\ UNCHANGED <<purpose, leasePurpose, blocking>>

\* the client lets go of the lease object (or of the CameraBusyError)
CamForget(c) ==
    /\ cam[c] \in {"released", "busy"}
    /\ cam' = [cam EXCEPT ![c] = "idle"]
    /\ leasePurpose' = [leasePurpose EXCEPT ![c] = "none"]
    /\ released' = [released EXCEPT ![c] = FALSE]
    /\ UNCHANGED <<lockHeld, purpose, blocking>>

\* in_use()
InUse == purpose

InitCam ==
    /\ lockHeld = FALSE
    /\ purpose = "none"
    /\ cam = [c \in Clients |-> "idle"]
    /\ leasePurpose = [c \in Clients |-> "none"]
    /\ blocking = [c \in Clients |-> FALSE]
    /\ released = [c \in Clients |-> FALSE]

\* The coordinator on its own: any client, any purpose, blocking or not.
NextCamera ==
    \/ \E c \in Clients, pu \in Purposes, b \in BOOLEAN :
           CamCall(c, pu, b) /\ UNCHANGED <<varsMode, varsCtl, varsLib>>
    \/ \E c \in Clients : CamLock(c) /\ UNCHANGED <<varsMode, varsCtl, varsLib>>
    \/ \E c \in Clients : CamSetPurpose(c) /\ UNCHANGED <<varsMode, varsCtl, varsLib>>
    \/ \E c \in Clients : LeaseRelease(c) /\ UNCHANGED <<varsMode, varsCtl, varsLib>>
    \/ \E c \in Clients : CamReleaseClear(c) /\ UNCHANGED <<varsMode, varsCtl, varsLib>>
    \/ \E c \in Clients : CamReleaseUnlock(c) /\ UNCHANGED <<varsMode, varsCtl, varsLib>>
    \/ \E c \in Clients : CamForget(c) /\ UNCHANGED <<varsMode, varsCtl, varsLib>>

(***************************************************************************)
(* SleepScheduler, as the motion loop uses it.                             *)
(***************************************************************************)
\* The wall clock starts after the epoch by more than any cooldown.
StartTime == FallbackFloor + RecordingMinGap + 1

\* datetime.now().time(); the process starts at 00:00
TimeOfDay(t) == t - StartTime

\* a window that also contains its end bound
Contains_Closed(w, value) ==
    IF w.start <= w.end
    THEN w.start <= value /\ value <= w.end
    ELSE value >= w.start \/ value < w.end

\* a window that never spans midnight
Contains_NoWrap(w, value) == w.start <= value /\ value < w.end

\* SleepWindow.contains
Contains(w, value) ==
    IF w.start <= w.end
    THEN w.start <= value /\ value < w.end
    ELSE value >= w.start \/ value < w.end

\* a scheduler that never reports quiet hours
IsSleepTime_Never(windows, t) == FALSE

\* SleepScheduler.is_sleep_time
IsSleepTime(windows, t) ==
    IF Len(windows) = 0 THEN FALSE
    ELSE \E i \in 1..Len(windows) : Contains(windows[i], TimeOfDay(t))

(***************************************************************************)
(* RunModeController: threads.                                             *)
(***************************************************************************)
\* threading.Thread.is_alive()
LoopAlive(m) == m # "none" /\ mpc[m] \notin {"none", "dead"}
RecAlive(r) == r # "none" /\ rpc[r] \notin {"none", "dead"}

\* a thread object that can be created: one that never ran or has exited
FreeLoops == {m \in Loops : ~LoopAlive(m)}
FreeRecs == {r \in RecThreads : ~RecAlive(r)}

Max(a, b) == IF a >= b THEN a ELSE b

(***************************************************************************)
(* RunModeController.start / stop                                          *)
(***************************************************************************)
\* start(): if self._motion_thread and self._motion_thread.is_alive(): return
StartCheck(k) ==
    /\ spc[k] = "idle"
    /\ IF LoopAlive(motionThread)
       THEN UNCHANGED spc
       ELSE spc' = [spc EXCEPT ![k] = "start_setup"]
    /\ UNCHANGED <<stopEvent, motionThread, recordingThread, recLock, recordingActive,
                   lastRecordingEnd, recordingPath, gpio, hasPir, sleepWindows, clock,
                   mpc, mnow, rpc, rpath, rresult>>

\* self._stop_event.clear(); self._setup_gpio()
StartSetup(k) ==
    /\ spc[k] = "start_setup"
    /\ stopEvent' = FALSE
    /\ gpio' = hasPir
    /\ spc' = [spc EXCEPT ![k] = "start_thread"]
    /\ UNCHANGED <<motionThread, recordingThread, recLock, recordingActive,
                   lastRecordingEnd, recordingPath, hasPir, sleepWindows, clock,
                   mpc, mnow, rpc, rpath, rresult>>

\* self._motion_thread = threading.Thread(...); self._motion_thread.start()
StartThread(k) ==
    /\ spc[k] = "start_thread"
    /\ FreeLoops # {}
    /\ LET m == CHOOSE x \in FreeLoops : TRUE IN
       /\ motionThread' = m
       /\ mpc' = [mpc EXCEPT ![m] = "top"]
    /\ spc' = [spc EXCEPT ![k] = "idle"]
    /\ UNCHANGED <<stopEvent, recordingThread, recLock, recordingActive,
                   lastRecordingEnd, recordingPath, gpio, hasPir, sleepWindows, clock,
                   mnow, rpc, rpath, rresult>>

\* stop(): self._stop_event.set()
StopSet(k) ==
    /\ spc[k] = "idle"
    /\ stopEvent' = TRUE
    /\ spc' = [spc EXCEPT ![k] = "join_motion"]
    /\ UNCHANGED <<motionThread, recordingThread, recLock, recordingActive,
                   lastRecordingEnd, recordingPath, gpio, hasPir, sleepWindows, clock,
                   mpc, mnow, rpc, rpath, rresult>>

\* a join() without timeout
JoinReturns_NoTimeout(threadAlive) == ~threadAlive

\* Thread.join(timeout=...) returns when the thread has exited, or when the
\* timeout has run out
JoinReturns(threadAlive) == \E timedOut \in BOOLEAN : timedOut \/ ~threadAlive

\* if self._motion_thread: self._motion_thread.join(timeout=5)
JoinMotion(k) ==
    /\ spc[k] = "join_motion"
    /\ JoinReturns(LoopAlive(motionThread))
    /\ spc' = [spc EXCEPT ![k] = "join_rec"]
    /\ UNCHANGED <<stopEvent, motionThread, recordingThread, recLock, recordingActive,
                   lastRecordingEnd, recordingPath, gpio, hasPir, sleepWindows, clock,
                   mpc, mnow, rpc, rpath, rresult>>

\* if self._recording_thread: self._recording_thread.join(timeout=10);
\* self._cleanup_gpio()
JoinRec(k) ==
    /\ spc[k] = "join_rec"
    /\ JoinReturns(RecAlive(recordingThread))
    /\ gpio' = FALSE
    /\ spc' = [spc EXCEPT ![k] = "idle"]
    /\ UNCHANGED <<stopEvent, motionThread, recordingThread, recLock, recordingActive,
                   lastRecordingEnd, recordingPath, hasPir, sleepWindows, clock,
                   mpc, mnow, rpc, rpath, rresult>>

(***************************************************************************)
(* RunModeController._motion_loop, _check_motion, _handle_motion           *)
(***************************************************************************)
\* while not self._stop_event.is_set(): if self._scheduler.is_sleep_time(now)
LoopTop(m) ==
    /\ mpc[m] = "top"
    /\ mpc' = [mpc EXCEPT ![m] =
                 IF stopEvent THEN "dead"
                 ELSE IF IsSleepTime(sleepWindows, clock) THEN "backoff"
                 ELSE "check"]
    /\ UNCHANGED <<stopEvent, motionThread, recordingThread, recLock, recordingActive,
                   lastRecordingEnd, recordingPath, gpio, hasPir, sleepWindows, clock,
                   spc, mnow, rpc, rpath, rresult>>

\* self._stop_event.wait(timeout=30); continue
Backoff(m) ==
    /\ mpc[m] = "backoff"
    /\ mpc' = [mpc EXCEPT ![m] = "top"]
    /\ UNCHANGED <<stopEvent, motionThread, recordingThread, recLock, recordingActive,
                   lastRecordingEnd, recordingPath, gpio, hasPir, sleepWindows, clock,
                   spc, mnow, rpc, rpath, rresult>>

\* the values _check_motion can return
MotionReadings ==
    IF ~gpio \/ ~hasPir
    THEN {(clock - lastRecordingEnd) > Max(RecordingMinGap, FallbackFloor)}
    ELSE BOOLEAN

\* triggered = self._check_motion(); if triggered: self._handle_motion()
\* with the first line of _handle_motion, now = time.time(); when not
\* triggered, the poll wait and back to the loop test
CheckMotion(m) ==
    /\ mpc[m] = "check"
    /\ \E triggered \in MotionReadings :
         IF triggered
         THEN /\ mnow' = [mnow EXCEPT ![m] = clock]
              /\ mpc' = [mpc EXCEPT ![m] = "hm_active"]
         ELSE /\ mpc' = [mpc EXCEPT ![m] = "top"]
              /\ UNCHANGED mnow
    /\ UNCHANGED <<stopEvent, motionThread, recordingThread, recLock, recordingActive,
                   lastRecordingEnd, recordingPath, gpio, hasPir, sleepWindows, clock,
                   spc, rpc, rpath, rresult>>

\* if self._recording_active: return
HmActive(m) ==
    /\ mpc[m] = "hm_active"
    /\ IF recordingActive
       THEN /\ mpc' = [mpc EXCEPT ![m] = "top"]
            /\ mnow' = [mnow EXCEPT ![m] = 0]
       ELSE /\ mpc' = [mpc EXCEPT ![m] = "hm_cooldown"]
            /\ UNCHANGED mnow
    /\ UNCHANGED <<stopEvent, motionThread, recordingThread, recLock, recordingActive,
                   lastRecordingEnd, recordingPath, gpio, hasPir, sleepWindows, clock,
                   spc, rpc, rpath, rresult>>

\* now - self._last_recording_end < self._settings.recording_min_gap_seconds
InCooldown(now, lastEnd) == now - lastEnd < RecordingMinGap

\* if now - self._last_recording_end < recording_min_gap_seconds: return
HmCooldown(m) ==
    /\ mpc[m] = "hm_cooldown"
    /\ mpc' = [mpc EXCEPT ![m] =
                 IF InCooldown(mnow[m], lastRecordingEnd) THEN "top" ELSE "hm_alive"]
    /\ mnow' = [mnow EXCEPT ![m] = 0]
    /\ UNCHANGED <<stopEvent, motionThread, recordingThread, recLock, recordingActive,
                   lastRecordingEnd, recordingPath, gpio, hasPir, sleepWindows, clock,
                   spc, rpc, rpath, rresult>>

\* if self._recording_thread and self._recording_thread.is_alive(): return
HmAlive(m) ==
    /\ mpc[m] = "hm_alive"
    /\ mpc' = [mpc EXCEPT ![m] = IF RecAlive(recordingThread) THEN "top" ELSE "hm_spawn"]
    /\ UNCHANGED <<stopEvent, motionThread, recordingThread, recLock, recordingActive,
                   lastRecordingEnd, recordingPath, gpio, hasPir, sleepWindows, clock,
                   spc, mnow, rpc, rpath, rresult>>

\* self._recording_thread = threading.Thread(target=self._record_motion, ...)
\* self._recording_thread.start(); then the poll wait and back to the loop test
HmSpawn(m) ==
    /\ mpc[m] = "hm_spawn"
    /\ FreeRecs # {}
    /\ LET r == CHOOSE x \in FreeRecs : TRUE IN
       /\ recordingThread' = r
       /\ rpc' = [rpc EXCEPT ![r] = "lock"]
    /\ mpc' = [mpc EXCEPT ![m] = "top"]
    /\ UNCHANGED <<stopEvent, motionThread, recLock, recordingActive,
                   lastRecordingEnd, recordingPath, gpio, hasPir, sleepWindows, clock,
                   spc, mnow, rpath, rresult>>

(***************************************************************************)
(* RunModeController._record_motion                                        *)
(***************************************************************************)
\* with self._recording_lock: ... enters self._camera.acquire("record", blocking=True)
RecLock(r) ==
    /\ rpc[r] = "lock"
    /\ recLock = "none"
    /\ recLock' = r
    /\ rpc' = [rpc EXCEPT ![r] = "acquire"]
    /\ CamCall(r, "record", TRUE)
    /\ UNCHANGED <<stopEvent, motionThread, recordingThread, recordingActive,
                   lastRecordingEnd, recordingPath, gpio, hasPir, sleepWindows, clock,
                   spc, mpc, mnow, rpath, rresult>>

\* a task that goes on without waiting for the lease
LeaseGranted_NoWait(r) == TRUE

\* lease = self._camera.acquire("record", blocking=True) has returned
LeaseGranted(r) == cam[r] = "leased"

\* how directory.mkdir(parents=True, exist_ok=True) can end
MkdirOutcomes == {"ok", "oserror"}

\* with lease: self._recording_active = True; timestamp_dir = ...;
\* directory.mkdir(...); path = directory / f"{filename}.mp4"
\* An OSError of mkdir is raised outside the try statement: it leaves the
\* `with lease` block (lease.release()) and skips the finally clause.
RecSetActive(r) ==
    /\ rpc[r] = "acquire" /\ LeaseGranted(r)
    /\ recordingActive' = TRUE
    /\ rpath' = [rpath EXCEPT ![r] = clock]
    /\ \E o \in MkdirOutcomes :
         IF o = "ok"
         THEN /\ rpc' = [rpc EXCEPT ![r] = "record"]
              /\ UNCHANGED varsCam
         ELSE /\ rpc' = [rpc EXCEPT ![r] = "unlock"]
              /\ LeaseRelease(r)
    /\ UNCHANGED <<stopEvent, motionThread, recordingThread, recLock,
                   lastRecordingEnd, recordingPath, gpio, hasPir, sleepWindows, clock,
                   spc, mpc, mnow, rresult>>

\* how record_video can end: it returns (at the duration cap, when the stop
\* event is set, or when a frame read fails), raises CameraUnavailable, or
\* raises something else
RecordOutcomes == {"ok", "unavailable", "error"}

\* path.unlink(missing_ok=True) inside try/except OSError: pass
UnlinkOutcomes == {"ok", "oserror"}

\* What is at `path` after the except clause. record_video raises before it
\* has opened its writer (no file: unlink finds nothing) or after (a partial
\* file: unlink removes it, or raises OSError, which is passed over).
Leftover(wrote, u) ==
    IF wrote /\ u = "oserror" THEN "failed_left" ELSE "failed_clean"

\* a _record_motion whose except clauses also store the path
SavedPath_Always(o, path, old) == path

\* self._recording_path after the try statement: assigned in the else clause only
SavedPath(o, path, old) == IF o = "ok" THEN path ELSE old

\* try: record_video(...) except CameraUnavailable / Exception: path.unlink()
\* else: self._recording_path = path; self._mirror_recording(path)
RecRecord(r) ==
    /\ rpc[r] = "record"
    /\ \E o \in RecordOutcomes :
         /\ recordingPath' = SavedPath(o, rpath[r], recordingPath)
         /\ IF o = "ok"
            THEN rresult' = [rresult EXCEPT ![r] = "saved"]
            ELSE \E wrote \in BOOLEAN, u \in UnlinkOutcomes :
                   rresult' = [rresult EXCEPT ![r] = Leftover(wrote, u)]
    /\ rpc' = [rpc EXCEPT ![r] = "fin_active"]
    /\ UNCHANGED <<stopEvent, motionThread, recordingThread, recLock, recordingActive,
                   lastRecordingEnd, gpio, hasPir, sleepWindows, clock,
                   spc, mpc, mnow, rpath>>
    /\ UNCHANGED varsCam

\* finally: self._recording_active = False
RecFinActive(r) ==
    /\ rpc[r] = "fin_active"
    /\ recordingActive' = FALSE
    /\ rpc' = [rpc EXCEPT ![r] = "fin_stamp"]
    /\ UNCHANGED <<stopEvent, motionThread, recordingThread, recLock,
                   lastRecordingEnd, recordingPath, gpio, hasPir, sleepWindows, clock,
                   spc, mpc, mnow, rpath, rresult>>
    /\ UNCHANGED varsCam

\* self._last_recording_end = time.time(); then _CameraLease.__exit__:
\* self.release()
RecFinStamp(r) ==
    /\ rpc[r] = "fin_stamp"
    /\ lastRecordingEnd' = clock
    /\ rpc' = [rpc EXCEPT ![r] = "unlock"]
    /\ LeaseRelease(r)
    /\ UNCHANGED <<stopEvent, motionThread, recordingThread, recLock, recordingActive,
                   recordingPath, gpio, hasPir, sleepWindows, clock,
                   spc, mpc, mnow, rpath, rresult>>

\* leaving `with self._recording_lock`; the thread ends
RecUnlock(r) ==
    /\ rpc[r] = "unlock" /\ cam[r] = "released"
    /\ recLock' = "none"
    /\ rpc' = [rpc EXCEPT ![r] = "dead"]
    /\ rpath' = [rpath EXCEPT ![r] = 0]
    /\ rresult' = [rresult EXCEPT ![r] = "-"]
    /\ CamForget(r)
    /\ UNCHANGED <<stopEvent, motionThread, recordingThread, recordingActive,
                   lastRecordingEnd, recordingPath, gpio, hasPir, sleepWindows, clock,
                   spc, mpc, mnow>>

(***************************************************************************)
(* The camera routes of the HTTP API, and the clock.                       *)
(***************************************************************************)
\* _camera_guard(request, "snapshot") / _camera_guard(request, "stream")
HttpPurpose(h) == IF h = "frame" THEN "snapshot" ELSE "stream"

\* The handlers are coroutines of one event loop: the code of a handler
\* between two awaits runs without another handler in between. h is inside
\* such a stretch while it is in coordinator.acquire, and camera_frame also
\* while it leaves `with guard` (camera_stream leaves it in a pool thread).
OnEventLoop(h) ==
    \/ cam[h] \in {"acquire", "set_purpose"}
    \/ h = "frame" /\ cam[h] \in {"rel_clear", "rel_unlock"}

EventLoopFree(h) == \A g \in Http \ {h} : ~OnEventLoop(g)

\* guard = _camera_guard(request, purpose): coordinator.acquire(purpose, blocking=False)
HttpAcquire(h) == EventLoopFree(h) /\ CamCall(h, HttpPurpose(h), FALSE)

\* leaving `with guard:`
HttpRelease(h) ==
    /\ cam[h] = "leased"
    /\ h = "frame" => EventLoopFree(h)
    /\ LeaseRelease(h)

\* the request is over (HTTP 423 after CameraBusyError, or the response)
HttpDone(h) == h \in Http /\ CamForget(h)

\* camera_stream has returned its StreamingResponse, whose body is the
\* generator that holds `with guard:`. The client goes away before the
\* server asks the generator for its first chunk: the generator never runs,
\* `with guard` is never entered, and the lease object, which has no
\* finalizer, is dropped with the response.
StreamDrop(h) ==
    /\ h = "stream" /\ cam[h] = "leased"
    /\ cam' = [cam EXCEPT ![h] = "dropped"]
    /\ UNCHANGED <<lockHeld, purpose, leasePurpose, blocking, released>>

\* a second of wall-clock time passes
Tick ==
    /\ clock < StartTime + MaxTicks
    /\ clock' = clock + 1
    /\ UNCHANGED <<stopEvent, motionThread, recordingThread, recLock, recordingActive,
                   lastRecordingEnd, recordingPath, gpio, hasPir, sleepWindows,
                   spc, mpc, mnow, rpc, rpath, rresult>>

\* The quiet hours tried: one window, the second second of the day. The
\* clock starts a second before it and runs past it.
SleepConfigs == {<< [start |-> 1, end |-> 2] >>}

\* RunModeController.__init__, for given settings
InitCtlWith(pir, windows, callers) ==
    /\ stopEvent = FALSE
    /\ motionThread = "none"
    /\ recordingThread = "none"
    /\ recLock = "none"
    /\ recordingActive = FALSE
    /\ lastRecordingEnd = 0
    /\ recordingPath = 0
    /\ gpio = FALSE
    /\ hasPir = pir
    /\ sleepWindows = windows
    /\ clock = StartTime
    /\ spc = [k \in callers |-> "idle"]
    /\ mpc = [m \in Loops |-> "none"]
    /\ mnow = [m \in Loops |-> 0]
    /\ rpc = [r \in RecThreads |-> "none"]
    /\ rpath = [r \in RecThreads |-> 0]
    /\ rresult = [r \in RecThreads |-> "-"]

\* a scheduler that nobody has built
InitSleepWith(config) ==
    /\ swConfig = config
    /\ swState = "new"
    /\ swWindows = << >>
    /\ swNow = 0
    /\ swAnswer = FALSE

\* None
Unset == -1

\* the `default` dict of _load_state
DefaultState ==
    [learned_capacity_mah |-> Unset, soc_coulomb |-> Unset,
     discharge_since_full_ah |-> 0, charge_since_empty_ah |-> 0,
     last_timestamp |-> Unset, last_current_a |-> Unset, last_flow |-> "none",
     samples_recorded |-> 0]

\* battery_state.json: absent, or holding what json.dumps(state) wrote
NoStateFile == [kind |-> "none", state |-> DefaultState]
Saved(state) == [kind |-> "state", state |-> state]
\* content that json.loads rejects with JSONDecodeError (an empty or
\* truncated file)
BadJson == [kind |-> "badjson", state |-> DefaultState]
\* valid JSON that is not an object, such as [1]: dict.update raises
NotObject == [kind |-> "notobject", state |-> DefaultState]
\* bytes that read_text cannot decode: UnicodeDecodeError
Undecodable == [kind |-> "undecodable", state |-> DefaultState]

\* no call yet
NoCall == [n |-> 0, timestamp |-> 0, voltage |-> 0, current |-> 0, flow |-> "none",
           nominal |-> 0]
NoEstimate ==
    [soc_pct |-> Unset, voltage_soc_pct |-> Unset, coulomb_soc_pct |-> Unset,
     capacity_mah |-> Unset, time_to_empty_hours |-> Unset,
     time_to_full_hours |-> Unset, samples_recorded |-> Unset]
NoOut == [kind |-> "none", est |-> NoEstimate]

\* an estimator that nobody has built, beside a state file, with the
\* nominal capacity its callers will pass
InitBatWith(content, nominal) ==
    /\ bFile = content
    /\ bObj = "new"
    /\ bState = DefaultState
    /\ bCall = [NoCall EXCEPT !.nominal = nominal]
    /\ bOut = NoOut

\* the library objects left alone
InitLib == InitSleepWith(<< >>) /\ InitBatWith(NoStateFile, 0)

\* the controller left alone
InitCtl == InitCtlWith(FALSE, << >>, Ctl)

\* Processes that contend for MODE_FILE; camera and controller left alone.
InitMode == \E f \in InitFiles : ModeInit(f) /\ InitCam /\ InitCtl /\ InitLib

\* The camera coordinator and its callers; MODE_FILE and controller left alone.
InitCamera == \E f \in {NoFile} : ModeInit(f) /\ InitCam /\ InitCtl /\ InitLib

\* The run-mode process, for each setting of the PIR sensor.
InitRun ==
    \E pir \in BOOLEAN, windows \in SleepConfigs :
        ModeInit(NoFile) /\ InitCam /\ InitCtlWith(pir, windows, Ctl) /\ InitLib

NextRun ==
    \/ \E k \in Ctl : StartCheck(k) /\ UNCHANGED <<varsMode, varsCam, varsLib>>
    \/ \E k \in Ctl : StartSetup(k) /\ UNCHANGED <<varsMode, varsCam, varsLib>>
    \/ \E k \in Ctl : StartThread(k) /\ UNCHANGED <<varsMode, varsCam, varsLib>>
    \/ \E k \in Ctl : StopSet(k) /\ UNCHANGED <<varsMode, varsCam, varsLib>>
    \/ \E k \in Ctl : JoinMotion(k) /\ UNCHANGED <<varsMode, varsCam, varsLib>>
    \/ \E k \in Ctl : JoinRec(k) /\ UNCHANGED <<varsMode, varsCam, varsLib>>
    \/ \E m \in Loops : LoopTop(m) /\ UNCHANGED <<varsMode, varsCam, varsLib>>
    \/ \E m \in Loops : Backoff(m) /\ UNCHANGED <<varsMode, varsCam, varsLib>>
    \/ \E m \in Loops : CheckMotion(m) /\ UNCHANGED <<varsMode, varsCam, varsLib>>
    \/ \E m \in Loops : HmActive(m) /\ UNCHANGED <<varsMode, varsCam, varsLib>>
    \/ \E m \in Loops : HmCooldown(m) /\ UNCHANGED <<varsMode, varsCam, varsLib>>
    \/ \E m \in Loops : HmAlive(m) /\ UNCHANGED <<varsMode, varsCam, varsLib>>
    \/ \E m \in Loops : HmSpawn(m) /\ UNCHANGED <<varsMode, varsCam, varsLib>>
    \/ Tick /\ UNCHANGED <<varsMode, varsCam, varsLib>>
    \/ \E r \in RecThreads : RecLock(r) /\ UNCHANGED <<varsMode, varsLib>>
    \/ \E r \in RecThreads : RecSetActive(r) /\ UNCHANGED <<varsMode, varsLib>>
    \/ \E r \in RecThreads : RecRecord(r) /\ UNCHANGED <<varsMode, varsLib>>
    \/ \E r \in RecThreads : RecFinActive(r) /\ UNCHANGED <<varsMode, varsLib>>
    \/ \E r \in RecThreads : RecFinStamp(r) /\ UNCHANGED <<varsMode, varsLib>>
    \/ \E r \in RecThreads : RecUnlock(r) /\ UNCHANGED <<varsMode, varsLib>>
    \/ \E c \in Clients : CamLock(c) /\ UNCHANGED <<varsMode, varsCtl, varsLib>>
    \/ \E c \in Clients : CamSetPurpose(c) /\ UNCHANGED <<varsMode, varsCtl, varsLib>>
    \/ \E c \in Clients : CamReleaseClear(c) /\ UNCHANGED <<varsMode, varsCtl, varsLib>>
    \/ \E c \in Clients : CamReleaseUnlock(c) /\ UNCHANGED <<varsMode, varsCtl, varsLib>>
    \/ \E h \in Http : HttpAcquire(h) /\ UNCHANGED <<varsMode, varsCtl, varsLib>>
    \/ \E h \in Http : HttpRelease(h) /\ UNCHANGED <<varsMode, varsCtl, varsLib>>
    \/ \E h \in Http : HttpDone(h) /\ UNCHANGED <<varsMode, varsCtl, varsLib>>
    \/ \E h \in Http : StreamDrop(h) /\ UNCHANGED <<varsMode, varsCtl, varsLib>>

(***************************************************************************)
(* Fairness of the camera coordinator's callers.                           *)
(***************************************************************************)
\* c gives its lease back: lease.release() and the two steps of _release
Releasing(c) ==
    /\ LeaseRelease(c) \/ CamReleaseClear(c) \/ CamReleaseUnlock(c)
    /\ UNCHANGED <<varsMode, varsCtl, varsLib>>

\* c takes the lock inside acquire
Locking(c) == CamLock(c) /\ UNCHANGED <<varsMode, varsCtl, varsLib>>

\* c records its purpose and gets its lease object
Granting(c) == CamSetPurpose(c) /\ UNCHANGED <<varsMode, varsCtl, varsLib>>

\* Every holder gives the lease back in the end and every thread keeps
\* running. threading.Lock wakes a blocked acquire when the lock is released,
\* but a later non-blocking caller can take the lock first: the blocked
\* acquire is only sure to return if it is not passed over for ever, which is
\* strong fairness of its lock step.
FairCamera ==
    \A c \in Clients :
        /\ WF_vars(Releasing(c))
        /\ SF_vars(Locking(c))
        /\ WF_vars(Granting(c))

\* quiet hours that last the whole run
AllDay == << [start |-> 0, end |-> MaxTicks + 1] >>

\* A controller whose start() and stop() are called by two threads during
\* quiet hours: the motion loop only backs off, nothing is recorded.
InitStart ==
    \E pir \in BOOLEAN :
        ModeInit(NoFile) /\ InitCam /\ InitCtlWith(pir, AllDay, Callers) /\ InitLib

NextStart ==
    \/ \E k \in Callers : StartCheck(k) /\ UNCHANGED <<varsMode, varsCam, varsLib>>
    \/ \E k \in Callers : StartSetup(k) /\ UNCHANGED <<varsMode, varsCam, varsLib>>
    \/ \E k \in Callers : StartThread(k) /\ UNCHANGED <<varsMode, varsCam, varsLib>>
    \/ \E k \in Callers : StopSet(k) /\ UNCHANGED <<varsMode, varsCam, varsLib>>
    \/ \E k \in Callers : JoinMotion(k) /\ UNCHANGED <<varsMode, varsCam, varsLib>>
    \/ \E k \in Callers : JoinRec(k) /\ UNCHANGED <<varsMode, varsCam, varsLib>>
    \/ \E m \in Loops : LoopTop(m) /\ UNCHANGED <<varsMode, varsCam, varsLib>>
    \/ \E m \in Loops : Backoff(m) /\ UNCHANGED <<varsMode, varsCam, varsLib>>
    \/ Tick /\ UNCHANGED <<varsMode, varsCam, varsLib>>

\* start(), lines 49-50, when the motion thread is alive: the debug line is
\* logged and the call is about to return
StartEarly(k) ==
    /\ spc[k] = "idle"
    /\ LoopAlive(motionThread)
    /\ spc' = [spc EXCEPT ![k] = "start_return"]
    /\ UNCHANGED <<stopEvent, motionThread, recordingThread, recLock, recordingActive,
                   lastRecordingEnd, recordingPath, gpio, hasPir, sleepWindows, clock,
                   mpc, mnow, rpc, rpath, rresult>>

\* start(), line 51: return
StartReturn(k) ==
    /\ spc[k] = "start_return"
    /\ spc' = [spc EXCEPT ![k] = "idle"]
    /\ UNCHANGED <<stopEvent, motionThread, recordingThread, recLock, recordingActive,
                   lastRecordingEnd, recordingPath, gpio, hasPir, sleepWindows, clock,
                   mpc, mnow, rpc, rpath, rresult>>

\* A controller started and stopped by one thread, with and without quiet
\* hours under way, and nothing on the camera.
InitRestart ==
    \E pir \in BOOLEAN, windows \in SleepConfigs \cup {AllDay} :
        ModeInit(NoFile) /\ InitCam /\ InitCtlWith(pir, windows, Ctl) /\ InitLib

\* start() with its early return as a step of its own, stop(), and the
\* motion loop up to the point where it would start a recording thread.
NextRestart ==
    \/ \E k \in Ctl : StartEarly(k) /\ UNCHANGED <<varsMode, varsCam, varsLib>>
    \/ \E k \in Ctl : StartReturn(k) /\ UNCHANGED <<varsMode, varsCam, varsLib>>
    \/ \E k \in Ctl : StartCheck(k) /\ UNCHANGED <<varsMode, varsCam, varsLib>>
    \/ \E k \in Ctl : StartSetup(k) /\ UNCHANGED <<varsMode, varsCam, varsLib>>
    \/ \E k \in Ctl : StartThread(k) /\ UNCHANGED <<varsMode, varsCam, varsLib>>
    \/ \E k \in Ctl : StopSet(k) /\ UNCHANGED <<varsMode, varsCam, varsLib>>
    \/ \E k \in Ctl : JoinMotion(k) /\ UNCHANGED <<varsMode, varsCam, varsLib>>
    \/ \E k \in Ctl : JoinRec(k) /\ UNCHANGED <<varsMode, varsCam, varsLib>>
    \/ \E m \in Loops : LoopTop(m) /\ UNCHANGED <<varsMode, varsCam, varsLib>>
    \/ \E m \in Loops : Backoff(m) /\ UNCHANGED <<varsMode, varsCam, varsLib>>
    \/ \E m \in Loops : CheckMotion(m) /\ UNCHANGED <<varsMode, varsCam, varsLib>>
    \/ \E m \in Loops : HmActive(m) /\ UNCHANGED <<varsMode, varsCam, varsLib>>
    \/ \E m \in Loops : HmCooldown(m) /\ UNCHANGED <<varsMode, varsCam, varsLib>>
    \/ \E m \in Loops : HmAlive(m) /\ UNCHANGED <<varsMode, varsCam, varsLib>>
    \/ Tick /\ UNCHANGED <<varsMode, varsCam, varsLib>>

\* the HTTP clients that can hold the camera without end
Streams == {"stream"}

\* The run-mode process while /camera/stream is the only camera route in use.
NextStop ==
    \/ \E k \in Ctl : StartCheck(k) /\ UNCHANGED <<varsMode, varsCam, varsLib>>
    \/ \E k \in Ctl : StartSetup(k) /\ UNCHANGED <<varsMode, varsCam, varsLib>>
    \/ \E k \in Ctl : StartThread(k) /\ UNCHANGED <<varsMode, varsCam, varsLib>>
    \/ \E k \in Ctl : StopSet(k) /\ UNCHANGED <<varsMode, varsCam, varsLib>>
    \/ \E k \in Ctl : JoinMotion(k) /\ UNCHANGED <<varsMode, varsCam, varsLib>>
    \/ \E k \in Ctl : JoinRec(k) /\ UNCHANGED <<varsMode, varsCam, varsLib>>
    \/ \E m \in Loops : LoopTop(m) /\ UNCHANGED <<varsMode, varsCam, varsLib>>
    \/ \E m \in Loops : Backoff(m) /\ UNCHANGED <<varsMode, varsCam, varsLib>>
    \/ \E m \in Loops : CheckMotion(m) /\ UNCHANGED <<varsMode, varsCam, varsLib>>
    \/ \E m \in Loops : HmActive(m) /\ UNCHANGED <<varsMode, varsCam, varsLib>>
    \/ \E m \in Loops : HmCooldown(m) /\ UNCHANGED <<varsMode, varsCam, varsLib>>
    \/ \E m \in Loops : HmAlive(m) /\ UNCHANGED <<varsMode, varsCam, varsLib>>
    \/ \E m \in Loops : HmSpawn(m) /\ UNCHANGED <<varsMode, varsCam, varsLib>>
    \/ Tick /\ UNCHANGED <<varsMode, varsCam, varsLib>>
    \/ \E r \in RecThreads : RecLock(r) /\ UNCHANGED <<varsMode, varsLib>>
    \/ \E r \in RecThreads : RecSetActive(r) /\ UNCHANGED <<varsMode, varsLib>>
    \/ \E r \in RecThreads : RecRecord(r) /\ UNCHANGED <<varsMode, varsLib>>
    \/ \E r \in RecThreads : RecFinActive(r) /\ UNCHANGED <<varsMode, varsLib>>
    \/ \E r \in RecThreads : RecFinStamp(r) /\ UNCHANGED <<varsMode, varsLib>>
    \/ \E r \in RecThreads : RecUnlock(r) /\ UNCHANGED <<varsMode, varsLib>>
    \/ \E c \in RecThreads \cup Streams : CamLock(c) /\ UNCHANGED <<varsMode, varsCtl, varsLib>>
    \/ \E c \in RecThreads \cup Streams : CamSetPurpose(c) /\ UNCHANGED <<varsMode, varsCtl, varsLib>>
    \/ \E c \in RecThreads \cup Streams : CamReleaseClear(c) /\ UNCHANGED <<varsMode, varsCtl, varsLib>>
    \/ \E c \in RecThreads \cup Streams : CamReleaseUnlock(c) /\ UNCHANGED <<varsMode, varsCtl, varsLib>>
    \/ \E h \in Streams : HttpAcquire(h) /\ UNCHANGED <<varsMode, varsCtl, varsLib>>
    \/ \E h \in Streams : HttpRelease(h) /\ UNCHANGED <<varsMode, varsCtl, varsLib>>
    \/ \E h \in Streams : HttpDone(h) /\ UNCHANGED <<varsMode, varsCtl, varsLib>>

\* stop() goes on after stop_event.set(): the two joins and the GPIO cleanup
Stopping(k) == (JoinMotion(k) \/ JoinRec(k)) /\ UNCHANGED <<varsMode, varsCam, varsLib>>

\* the motion thread runs
Looping(m) ==
    /\ \/ LoopTop(m) \/ Backoff(m) \/ CheckMotion(m) \/ HmActive(m)
       \/ HmCooldown(m) \/ HmAlive(m) \/ HmSpawn(m)
    /\ UNCHANGED <<varsMode, varsCam, varsLib>>

\* The thread inside stop() and the motion threads keep being scheduled.
\* Nothing is assumed of the recording thread or of the HTTP clients: a
\* stream may hold the camera for ever.
FairRun ==
    /\ \A k \in Ctl : WF_vars(Stopping(k))
    /\ \A m \in Loops : WF_vars(Looping(m))

(***************************************************************************)
(* SleepScheduler on its own (sleep.py): construction from the configured  *)
(* strings, and is_sleep_time at a time of day.                            *)
(*                                                                         *)
(* A string is modelled by what value.split(":") makes of it: a sequence   *)
(* of fields, each field either a numeral that int() accepts or text that  *)
(* int() rejects with ValueError. A time of day is its number of seconds   *)
(* since midnight.                                                         *)
(***************************************************************************)
\* a field that int() turns into n
Num(n) == [int |-> TRUE, n |-> n]
\* a field on which int() raises ValueError
Junk == [int |-> FALSE, n |-> 0]

\* datetime.time(hour, minute, second)
TimeOf(h, m, sec) == (h * 60 + m) * 60 + sec

\* what _parse_time returns or raises
Parsed(t) == [raised |-> "none", t |-> t]
Raised(e) == [raised |-> e, t |-> 0]

\* _parse_time
ParseTime(value) ==
    IF Len(value) # 2 THEN Raised("ValueError")
    ELSE IF ~value[1].int \/ ~value[2].int THEN Raised("ValueError")
    ELSE IF ~(0 <= value[1].n /\ value[1].n <= 23 /\ 0 <= value[2].n /\ value[2].n <= 59)
         THEN Raised("ValueError")
    ELSE Parsed(TimeOf(value[1].n, value[2].n, 0))

\* window[key]; a dict without the key raises KeyError
Lookup(window, key) ==
    IF key \in DOMAIN window THEN ParseTime(window[key]) ELSE Raised("KeyError")

\* a constructor that only expects a missing key
Caught_KeyErrorOnly == {"KeyError"}

\* except (KeyError, ValueError)
Caught == {"KeyError", "ValueError"}

\* The body of `for window in windows`, from entry i on, with `acc` the
\* _windows built so far. The end bound is only parsed when the start bound
\* was. An exception outside the except clause leaves __init__.
RECURSIVE BuildWindows(_, _, _)
BuildWindows(windows, i, acc) ==
    IF i > Len(windows) THEN [raised |-> FALSE, windows |-> acc]
    ELSE LET start == Lookup(windows[i], "start")
             end   == Lookup(windows[i], "end")
             exc   == IF start.raised # "none" THEN start.raised ELSE end.raised
         IN  IF exc = "none"
             THEN BuildWindows(windows, i + 1,
                               Append(acc, [start |-> start.t, end |-> end.t]))
             ELSE IF exc \in Caught
             THEN BuildWindows(windows, i + 1, acc)
             ELSE [raised |-> TRUE, windows |-> acc]

\* SleepScheduler.__init__
SleepConstruct ==
    /\ swState = "new"
    /\ LET built == BuildWindows(swConfig, 1, << >>) IN
       /\ swState' = IF built.raised THEN "raised" ELSE "built"
       /\ swWindows' = built.windows
    /\ UNCHANGED <<swConfig, swNow, swAnswer>>

\* SleepScheduler.is_sleep_time(now), now a datetime of the day that starts
\* at StartTime
SleepQuery(now) ==
    /\ swState = "built"
    /\ swNow' = now
    /\ swAnswer' = IsSleepTime(swWindows, now)
    /\ UNCHANGED <<swConfig, swState, swWindows>>

\* The strings tried as bounds: 00:00, 01:00 and 23:59, then an hour and a
\* minute out of range, a bound that is not a number, and one without colon.
GoodTimes == {<<Num(0), Num(0)>>, <<Num(1), Num(0)>>, <<Num(23), Num(59)>>}
BadTimes == {<<Num(24), Num(0)>>, <<Num(0), Num(60)>>, <<Junk, Num(0)>>, <<Num(0)>>}

\* The entries tried: every pair of good bounds, and entries with one bound
\* bad or missing beside a good one.
GoodEntries == {[k \in {"start", "end"} |-> IF k = "start" THEN a ELSE b] :
                   a \in GoodTimes, b \in GoodTimes}
BadEntries ==
    {[k \in {"start", "end"} |-> IF k = "start" THEN a ELSE <<Num(1), Num(0)>>] : a \in BadTimes}
    \cup {[k \in {"start", "end"} |-> IF k = "end" THEN a ELSE <<Num(1), Num(0)>>] : a \in BadTimes}
    \cup {[k \in {"start"} |-> <<Num(1), Num(0)>>], [k \in {"end"} |-> <<Num(1), Num(0)>>]}
Entries == GoodEntries \cup BadEntries

\* the `windows` lists tried
Configs == UNION {[1..n -> Entries] : n \in 0..MaxWindows}

\* The times of day asked about: around each good bound, to the second.
Nows == {StartTime + TimeOf(h, m, sec) : h \in {0, 1, 23}, m \in {0, 59}, sec \in {0, 59}}

\* A scheduler on its own; the coordination layer left alone.
InitSleep ==
    \E config \in Configs :
        /\ ModeInit(NoFile) /\ InitCam /\ InitCtl /\ InitSleepWith(config)
        /\ InitBatWith(NoStateFile, 0)

NextSleep ==
    \/ SleepConstruct /\ UNCHANGED <<varsMode, varsCam, varsCtl, varsBat>>
    \/ \E now \in Nows : SleepQuery(now) /\ UNCHANGED <<varsMode, varsCam, varsCtl, varsBat>>

(***************************************************************************)
(* BatteryEstimator (hardware/battery.py).                                 *)
(*                                                                         *)
(* Floats are fixed-point integers, rounded down where a division is not   *)
(* exact:                                                                  *)
(*   voltage            mV                                                 *)
(*   current            mA                                                 *)
(*   time               s                                                  *)
(*   amp-hours          half mA*s     (1 Ah = AhUnit)                      *)
(*   capacity           mAh                                                *)
(*   SoC fraction       1/SocFull     (1.0 = SocFull)                      *)
(*   SoC percentage     1/72 %        (100 % = SocFull)                    *)
(*   hours              1/SocFull h                                        *)
(* With these units avg_current * delta_hours is (|i1| + |i2|) * dt, and   *)
(* an amount of amp-hours divided by a capacity in mAh is a SoC fraction.  *)
(***************************************************************************)
SocFull == 7200
AhUnit == 1000 * SocFull

\* BATTERY_SOC_CURVE: (mV, %)
BATTERY_SOC_CURVE ==
    << <<4200, 100>>, <<4150, 98>>, <<4120, 95>>, <<4100, 93>>, <<4050, 90>>,
       <<4000, 80>>, <<3950, 72>>, <<3920, 65>>, <<3900, 60>>, <<3870, 55>>,
       <<3840, 50>>, <<3800, 45>>, <<3780, 40>>, <<3750, 35>>, <<3720, 30>>,
       <<3700, 27>>, <<3680, 24>>, <<3650, 20>>, <<3600, 15>>, <<3550, 10>>,
       <<3500, 6>>, <<3450, 3>>, <<3400, 1>>, <<3350, 0>> >>

FULL_VOLTAGE_THRESHOLD == 4150
EMPTY_VOLTAGE_THRESHOLD == 3400
MAX_DELTA_SECONDS == 600
\* MIN_CYCLE_FRACTION = 0.2 is one part in MinCycleDiv
MinCycleDiv == 5
\* CAPACITY_SMOOTHING = 0.3 is SmoothNew parts in SmoothDen
SmoothNew == 3
SmoothDen == 10
\* MIN_CURRENT_FOR_RUNTIME_A = 0.05
MIN_CURRENT_FOR_RUNTIME == 50

Abs(x) == IF x < 0 THEN -x ELSE x
Min(a, b) == IF a < b THEN a ELSE b

\* a percentage of the curve in the unit of the model
Pct(p) == p * (SocFull \div 100)

\* the first segment of the curve, from i on, that holds the voltage
RECURSIVE CurveWalk(_, _)
CurveWalk(voltage, i) ==
    IF i >= Len(BATTERY_SOC_CURVE) THEN Max(0, Min(Pct(100), Pct(BATTERY_SOC_CURVE[Len(BATTERY_SOC_CURVE)][2])))
    ELSE LET hi == BATTERY_SOC_CURVE[i]
             lo == BATTERY_SOC_CURVE[i + 1]
             span == hi[1] - lo[1]
         IN  IF lo[1] <= voltage /\ voltage <= hi[1]
             THEN IF span <= 0 THEN Pct(lo[2])
                  ELSE Pct(lo[2]) + ((voltage - lo[1]) * (Pct(hi[2]) - Pct(lo[2]))) \div span
             ELSE CurveWalk(voltage, i + 1)

\* a mapping without the two tests for voltages outside the table
voltage_to_soc_TableOnly(voltage) == CurveWalk(voltage, 1)

\* voltage_to_soc
voltage_to_soc(voltage) ==
    IF voltage >= BATTERY_SOC_CURVE[1][1] THEN Pct(100)
    ELSE IF voltage <= BATTERY_SOC_CURVE[Len(BATTERY_SOC_CURVE)][1] THEN 0
    ELSE CurveWalk(voltage, 1)

\* `x or y` on a number that may be None
OrElse(x, y) == IF x = Unset \/ x = 0 THEN y ELSE x

\* max(0.1, mah / 1000.0), kept in mAh
AtLeastTenthAh(mah) == Max(100, mah)

\* the gap to the last sample is one the coulomb counter trusts
\* (mutant of the test on line 180: any positive gap)
Integrates_AnyGap(state, timestamp) ==
    /\ state.last_timestamp # Unset
    /\ 0 < timestamp - state.last_timestamp

\* last_timestamp is not None and 0 < delta_seconds <= MAX_DELTA_SECONDS
Integrates(state, timestamp) ==
    /\ state.last_timestamp # Unset
    /\ 0 < timestamp - state.last_timestamp
    /\ timestamp - state.last_timestamp <= MAX_DELTA_SECONDS

\* avg_current * delta_hours
Amount(state, timestamp, current) ==
    (Abs(current) + Abs(OrElse(state.last_current_a, 0))) * (timestamp - state.last_timestamp)

\* a counter without the lower clamp
Discharged_NoClamp(soc, amount, capacity) == soc - amount \div capacity

\* max(0.0, soc_coulomb - discharge_ah / capacity_ah_ref)
Discharged(soc, amount, capacity) == Max(0, soc - amount \div capacity)

\* min(1.0, soc_coulomb + charge_ah / capacity_ah_ref)
Charged(soc, amount, capacity) == Min(SocFull, soc + amount \div capacity)

\* _update_state, lines 177-198: coulomb counting
Integrate(state, timestamp, current, flow, nominal) ==
    LET capacity == AtLeastTenthAh(OrElse(state.learned_capacity_mah, nominal))
        amount == Amount(state, timestamp, current)
    IN  IF ~Integrates(state, timestamp) THEN state
        ELSE IF state.last_flow = "discharging" /\ flow = "discharging"
        THEN [state EXCEPT
                !.discharge_since_full_ah = @ + amount,
                !.soc_coulomb = IF @ # Unset THEN Discharged(@, amount, capacity) ELSE @]
        ELSE IF state.last_flow = "charging" /\ flow = "charging"
        THEN [state EXCEPT
                !.charge_since_empty_ah = @ + amount,
                !.soc_coulomb = IF @ # Unset THEN Charged(@, amount, capacity) ELSE @]
        ELSE state

\* nominal_ah * MIN_CYCLE_FRACTION, in amp-hours
MinCycle(nominal) == (AtLeastTenthAh(nominal) * SocFull) \div MinCycleDiv

\* a learner that takes the observation as it is
Blend_NoSmoothing(previous, observed) == observed

\* (1.0 - CAPACITY_SMOOTHING) * previous + CAPACITY_SMOOTHING * observed
Blend(previous, observed) ==
    ((SmoothDen - SmoothNew) * previous + SmoothNew * observed) \div SmoothDen

\* lines 207-214 and 219-226: the capacity learnt from `cycled` amp-hours
Learn(state, cycled, nominal) ==
    IF cycled >= MinCycle(nominal)
    THEN LET observed == cycled \div SocFull
             previous == state.learned_capacity_mah
             updated == IF previous # Unset /\ previous # 0
                        THEN Blend(previous, observed) ELSE observed
         IN  Max(updated, nominal \div MinCycleDiv)
    ELSE state.learned_capacity_mah

\* _update_state, lines 200-228: near-full and near-empty events
Events(state, voltage, flow, nominal) ==
    IF flow = "charging" /\ voltage >= FULL_VOLTAGE_THRESHOLD
    THEN [state EXCEPT
            !.learned_capacity_mah = Learn(state, state.discharge_since_full_ah, nominal),
            !.soc_coulomb = SocFull,
            !.discharge_since_full_ah = 0,
            !.charge_since_empty_ah = 0]
    ELSE IF flow = "discharging" /\ voltage <= EMPTY_VOLTAGE_THRESHOLD
    THEN [state EXCEPT
            !.learned_capacity_mah = Learn(state, state.charge_since_empty_ah, nominal),
            !.soc_coulomb = 0,
            !.charge_since_empty_ah = 0]
    ELSE state

\* _update_state, lines 230-235
Initialise(state, voltage, flow) ==
    IF state.soc_coulomb # Unset THEN state
    ELSE IF voltage >= FULL_VOLTAGE_THRESHOLD /\ flow = "charging"
    THEN [state EXCEPT !.soc_coulomb = SocFull]
    ELSE IF voltage <= EMPTY_VOLTAGE_THRESHOLD /\ flow = "discharging"
    THEN [state EXCEPT !.soc_coulomb = 0]
    ELSE state

\* _update_state
UpdateState(state, timestamp, voltage, current, flow, nominal) ==
    LET counted == Integrate(state, timestamp, current, flow, nominal)
        pinned == Initialise(Events(counted, voltage, flow, nominal), voltage, flow)
    IN  [pinned EXCEPT
            !.last_timestamp = timestamp,
            !.last_current_a = current,
            !.last_flow = flow,
            !.samples_recorded = @ + 1]

\* current >= MIN_CURRENT_FOR_RUNTIME_A
Enough(current) == current >= MIN_CURRENT_FOR_RUNTIME

\* max(0.0, min(100.0, blended_soc))
Clamp(soc) == Max(0, Min(Pct(100), soc))

\* a blend that takes a coulomb SoC of 0.0 for one that is not set
Blended_Falsy(voltage_soc, coulomb_soc) ==
    IF coulomb_soc # Unset /\ coulomb_soc # 0
    THEN (voltage_soc + coulomb_soc) \div 2
    ELSE voltage_soc

\* _build_estimate, lines 253-256: if coulomb_soc is not None: ... else: ...
Blended(voltage_soc, coulomb_soc) ==
    IF coulomb_soc # Unset
    THEN (voltage_soc + coulomb_soc) \div 2
    ELSE voltage_soc

\* _build_estimate
BuildEstimate(state, voltage, current, flow, nominal) ==
    LET learned == OrElse(state.learned_capacity_mah, nominal)
        voltage_soc == voltage_to_soc(voltage)
        coulomb_soc == state.soc_coulomb
        blended == Clamp(Blended(voltage_soc, coulomb_soc))
        available == learned * blended
        remaining == learned * Max(0, Pct(100) - blended)
    IN  [soc_pct |-> blended,
         voltage_soc_pct |-> voltage_soc,
         coulomb_soc_pct |-> coulomb_soc,
         capacity_mah |-> learned,
         time_to_empty_hours |->
            IF flow = "discharging" /\ Enough(Abs(current)) /\ available > 0
            THEN available \div Abs(current) ELSE Unset,
         time_to_full_hours |->
            IF flow = "charging" /\ Enough(current) /\ remaining > 0
            THEN remaining \div current ELSE Unset,
         samples_recorded |-> state.samples_recorded]

\* _load_state returns: the file is absent, or json.loads raises
\* JSONDecodeError, or the loaded object goes through default.update
Loads(content) == content.kind \in {"none", "badjson", "state"}

\* _load_state, when it returns
LoadState(content) == IF content.kind = "state" THEN content.state ELSE DefaultState

\* BatteryEstimator.__init__: self.state = self._load_state()
BatConstruct ==
    /\ bObj = "new"
    /\ IF Loads(bFile)
       THEN bObj' = "ready" /\ bState' = LoadState(bFile)
       ELSE bObj' = "raised" /\ UNCHANGED bState
    /\ UNCHANGED <<bFile, bCall, bOut>>

\* the timestamp of the first sample of a history
BaseTime == 1000

\* How the two writes of record_sample can go: both work; the append to the
\* history file raises OSError; write_text of the state file raises OSError
\* before it has touched the file, or after it has truncated it.
IoOutcomes == {"ok", "history_oserror", "save_oserror", "save_oserror_truncated"}

\* _append_history and _save_state have no except clause
Raises(io) == io # "ok"

\* record_sample(timestamp, voltage_v, current_ma, flow, nominal_capacity_mah),
\* the timestamp dt seconds after the last one
RecordSample(limit, dt, voltage, current, flow, io) ==
    /\ bObj = "ready"
    /\ bCall.n < limit
    /\ LET timestamp == IF bState.last_timestamp = Unset THEN BaseTime
                        ELSE bState.last_timestamp + dt
           nominal == bCall.nominal
           updated == UpdateState(bState, timestamp, voltage, current, flow, nominal)
       IN
       /\ bCall' = [n |-> bCall.n + 1, timestamp |-> timestamp, voltage |-> voltage,
                    current |-> current, flow |-> flow, nominal |-> nominal]
       /\ bState' = IF io = "history_oserror" THEN bState ELSE updated
       /\ bFile' = CASE io = "ok" -> Saved(updated)
                     [] io = "save_oserror_truncated" -> BadJson
                     [] OTHER -> bFile
       /\ bOut' = IF Raises(io)
                  THEN [kind |-> "raised", est |-> NoEstimate]
                  ELSE [kind |-> "estimate",
                        est |-> BuildEstimate(updated, voltage, current, flow, nominal)]
    /\ UNCHANGED bObj

\* one sample of a history
Sample(dt, voltage, current, flow) ==
    [dt |-> dt, voltage |-> voltage, current |-> current, flow |-> flow]

\* the state that a run with a 500 mAh battery leaves in the file after the
\* samples of `history`
RECURSIVE Replay(_, _, _)
Replay(state, history, i) ==
    IF i > Len(history) THEN state
    ELSE LET x == history[i]
             timestamp == IF state.last_timestamp = Unset THEN BaseTime
                          ELSE state.last_timestamp + x.dt
         IN  Replay(UpdateState(state, timestamp, x.voltage, x.current, x.flow, 500),
                    history, i + 1)

\* charged to full, then 200 mAh drawn
DrawnHistory ==
    << Sample(0, 5000, 1200, "charging"), Sample(600, 3725, 1200, "discharging"),
       Sample(600, 3725, 1200, "discharging") >>

\* the same, charged to full again (200 mAh learnt), and discharging again
LearntHistory ==
    DrawnHistory \o << Sample(600, 5000, 1200, "charging"),
                       Sample(600, 3725, 3600, "discharging") >>

\* the state files an estimator starts beside
SavedFiles ==
    {NoStateFile,
     Saved(Replay(DefaultState, DrawnHistory, 1)),
     Saved(Replay(DefaultState, LearntHistory, 1))}

\* the nominal_capacity_mah of a run
Nominals == {500, 2000}

\* The samples of a history: gaps of nothing, ten minutes, and a second
\* more; a voltage below the curve, one inside it, one above it; currents
\* just below and at the runtime threshold, one read with a minus sign, and
\* one that drains a 500 mAh battery in eight minutes.
Dts == {0, MAX_DELTA_SECONDS, MAX_DELTA_SECONDS + 1}
Volts == {2000, 3725, 5000}
Currents == {-1200, 49, 50, 3600}
Flows == {"charging", "discharging", "idle"}

\* An estimator fed a history of samples while its files can be written.
InitBattery ==
    \E content \in SavedFiles, nominal \in Nominals :
        /\ ModeInit(NoFile) /\ InitCam /\ InitCtl /\ InitSleepWith(<< >>)
        /\ InitBatWith(content, nominal)

NextBattery ==
    \/ BatConstruct /\ UNCHANGED <<varsMode, varsCam, varsCtl, varsSleep>>
    \/ \E dt \in Dts, voltage \in Volts, current \in Currents, flow \in Flows :
          /\ RecordSample(MaxSamples, dt, voltage, current, flow, "ok")
          /\ UNCHANGED <<varsMode, varsCam, varsCtl, varsSleep>>

\* An estimator beside any state file, on a disk whose writes can fail.
InitBatteryIO ==
    \E content \in SavedFiles \cup {BadJson, NotObject, Undecodable} :
        /\ ModeInit(NoFile) /\ InitCam /\ InitCtl /\ InitSleepWith(<< >>)
        /\ InitBatWith(content, 500)

NextBatteryIO ==
    \/ BatConstruct /\ UNCHANGED <<varsMode, varsCam, varsCtl, varsSleep>>
    \/ \E voltage \in {3725, 5000}, flow \in {"charging", "discharging"}, io \in IoOutcomes :
          /\ RecordSample(MaxSamples, MAX_DELTA_SECONDS, voltage, 1200, flow, io)
          /\ UNCHANGED <<varsMode, varsCam, varsCtl, varsSleep>>

(***************************************************************************)
(* Specifications.                                                         *)
(***************************************************************************)
\* The processes and MODE_FILE.
SpecMode == InitMode /\ [][NextMode]_vars

\* The camera coordinator and its clients.
SpecCamera == InitCamera /\ [][NextCamera]_vars

\* The camera coordinator with callers that release and a lock that does not
\* pass a waiting thread over for ever.
SpecCameraFair == SpecCamera /\ FairCamera

\* The run-mode process with its stop() and its motion loop scheduled fairly,
\* beside a stream that holds the camera as long as it likes.
SpecFair == InitRun /\ [][NextStop]_vars /\ FairRun

\* One controller driven by two lifecycle threads.
SpecStart == InitStart /\ [][NextStart]_vars

\* One controller restarted by one lifecycle thread.
SpecRestart == InitRestart /\ [][NextRestart]_vars

\* A BatteryEstimator and its state file, with writes that can fail.
SpecBatteryIO == InitBatteryIO /\ [][NextBatteryIO]_vars

\* A BatteryEstimator fed up to MaxSamples samples.
SpecBattery == InitBattery /\ [][NextBattery]_vars

\* A SleepScheduler built from a configuration and asked about times of day.
SpecSleep == InitSleep /\ [][NextSleep]_vars

\* The run-mode process: controller threads, HTTP clients of the camera, clock.
Spec == InitRun /\ [][NextRun]_vars

(***************************************************************************)
(* Properties of ModeRegistry.                                             *)
(***************************************************************************)
\* p holds a mode: its acquire returned normally and it has not released since.
Holds(p) == alive[p] /\ acquired[p]

\* os.kill finds the process (it answers, or it belongs to someone else).
Live(pid) == KillOutcome(pid) # "esrch"

\* the step is p running ReadExists, ReadText or ReadUnlink inside acquire and
\* getting the value e back from _read()
AcquireReads(p, e) ==
    /\ alive[p] /\ alive'[p] /\ call[p] = "acquire"
    /\ \/ ppc[p] = "read_exists" /\ file.kind = "none" /\ e = NoFile
       \/ ppc[p] = "read_text" /\ file.kind = "rec" /\ e = file
       \/ ppc[p] = "read_unlink" /\ e = NoFile
    /\ ppc'[p] # ppc[p]

\* C2: no two live processes have both completed acquire, without releasing
\* since, for different operating modes.
C2_OneModeSystemWide ==
    \A p, q \in Pids : (Holds(p) /\ Holds(q)) => opMode[p] = opMode[q]

\* C7: when acquire reads a record naming a live process (permission denied
\* counts as live) and another mode than the requested one, it raises the
\* Conflict error naming that mode and pid, returns without marking itself
\* acquired and leaves the file as it is.
C7_ConflictOnLiveOtherMode ==
    [][\A p \in Pids : \A e \in {file} :
          (AcquireReads(p, e) /\ e.kind = "rec" /\ Live(e.pid) /\ e.mode # req[p])
          => /\ last'[p] = e
             /\ ppc'[p] = "idle"
             /\ acquired'[p] = acquired[p]
             /\ opMode'[p] = opMode[p]
             /\ file' = file]_vars

\* C7 witness: a process was refused because of a record whose owner could
\* only be probed with "permission denied".
C7_Witness ==
    \E p \in Pids : alive[p] /\ ~acquired[p] /\ last[p].kind = "rec"
                             /\ last[p].pid = ForeignPid

\* C8: when acquire finds no record, or a record whose owner the probe reports
\* as "no such process", it does not refuse: it goes on to write, whatever the
\* requested mode, and the write leaves exactly (requested mode, own pid) in
\* the file and the process marked as holder of that mode.
C8_StaleOwnerRecovery ==
    [][\A p \in Pids :
          /\ \A e \in {NoFile, file} :
               (AcquireReads(p, e) /\ (e.kind = "none" \/ ~Live(e.pid)))
               => ppc'[p] \in {"write_open", "stale_unlink"}
          /\ (alive[p] /\ alive'[p] /\ ppc[p] = "stale_unlink" /\ ppc'[p] # ppc[p])
               => (file' = NoFile /\ ppc'[p] = "write_open")
          /\ (alive[p] /\ alive'[p] /\ ppc[p] = "write_open" /\ ppc'[p] # ppc[p])
               => ppc'[p] = "write_data"
          /\ (alive[p] /\ alive'[p] /\ ppc[p] = "write_data" /\ ppc'[p] # ppc[p])
               => /\ file' = Record(req[p], p)
                  /\ acquired'[p] /\ opMode'[p] = req[p]
                  /\ last'[p].kind \in {"ok", "ok_stale"}]_vars

\* C8 witness: a process took over from a dead owner and its record is in place.
C8_Witness ==
    \E p \in Pids : Holds(p) /\ last[p] = Outcome("ok_stale") /\ ppc[p] = "idle"
                             /\ file = Record(opMode[p], p)

\* C9: while a live process holds the record for the run mode, no other live
\* process completes an acquire of the run mode, and no step of another
\* process changes the file.
C9_NoSecondAutonomous ==
    [][\A p, q \in Pids :
          (p # q /\ Holds(p) /\ alive'[p] /\ file = Record("run", p) /\ alive[q])
          => /\ ~(call[q] = "acquire" /\ req[q] = "run" /\ last'[q].kind \in {"ok", "ok_stale"}
                    /\ ppc'[q] = "idle" /\ ppc[q] # "idle")
             /\ (ppc'[q] # ppc[q] => file' = file)]_vars

\* C10: no step of release removes a record whose pid is that of another
\* live process.
C10_ReleaseOwnerOnly ==
    [][\A p \in Pids :
          (alive[p] /\ call[p] = "release" /\ ppc'[p] # ppc[p]
             /\ file.kind = "rec" /\ file.pid # p /\ Live(file.pid))
          => file' = file]_vars

\* C11: an acquire that reads a record naming the requested mode and its own
\* pid succeeds without writing: the file is left exactly as it was and the
\* process is marked as holder of that mode.
C11_ReentrantNoOp ==
    [][\A p \in Pids : \A e \in {file} :
          (AcquireReads(p, e) /\ e.kind = "rec" /\ e.mode = req[p] /\ e.pid = p)
          => /\ file' = file
             /\ ppc'[p] = "idle"
             /\ acquired'[p] /\ opMode'[p] = req[p]
             /\ last'[p] = Outcome("ok_again")]_vars

\* C11 witness: a process has acquired the mode it already held, and its
\* record is in place.
C11_Witness ==
    \E p \in Pids : Holds(p) /\ last[p] = Outcome("ok_again") /\ ppc[p] = "idle"
                             /\ file = Record(opMode[p], p)

\* C12: reading a corrupt or unreadable file never ends acquire or release
\* with an error: the method goes on as if the file were absent.
C12_CorruptAsAbsent ==
    [][\A p \in Pids :
          (alive[p] /\ alive'[p] /\ ppc[p] = "read_text" /\ ppc'[p] # ppc[p]
             /\ file.kind \in {"corrupt", "unreadable"})
          => ppc'[p] = "read_unlink"]_vars

(***************************************************************************)
(* Properties of CameraUsageCoordinator.                                   *)
(***************************************************************************)
\* The clients whose acquire took the lock and whose release has not yet
\* given it back: the holders of an unreleased lease.
LeaseHolders ==
    {c \in Clients : cam[c] \in {"set_purpose", "leased", "rel_clear", "rel_unlock", "dropped"}}

\* C1: at most one unreleased lease exists, whatever the interleaving of
\* blocking acquires, non-blocking acquires and releases.
C1_OneLease == Cardinality(LeaseHolders) <= 1

\* C1 witness: one client holds the lease while a blocking acquire waits and
\* a non-blocking acquire has been refused.
C1_Witness ==
    \E c, w, n \in Clients :
        /\ cam[c] = "leased"
        /\ cam[w] = "acquire" /\ blocking[w]
        /\ cam[n] = "busy"

\* c is inside a non-blocking acquire and has not yet tried the lock.
Trying(c) == cam[c] = "acquire" /\ ~blocking[c]

\* C13: a non-blocking acquire never waits; it succeeds exactly when no lease
\* is held at the moment it tries (so of the callers that try while one of
\* them holds the lease, only that one succeeds), and when it fails with
\* CameraBusyError the holder, the lock and the recorded purpose are unchanged.
C13_FailFast ==
    [][\A c \in Clients :
          /\ Trying(c) => ENABLED CamLock(c)
          /\ (Trying(c) /\ cam'[c] # cam[c]) =>
                IF LeaseHolders = {}
                THEN cam'[c] = "set_purpose" /\ LeaseHolders' = {c}
                ELSE /\ cam'[c] = "busy"
                     /\ LeaseHolders' = LeaseHolders
                     /\ purpose' = purpose /\ lockHeld' = lockHeld]_vars

\* C13 witness: of three callers of the non-blocking acquire one has just won
\* the free coordinator, one has been refused and one has yet to try.
C13_Witness ==
    \E c, n, w \in Clients :
        /\ cam[c] = "set_purpose" /\ ~blocking[c]
        /\ cam[n] = "busy"
        /\ Trying(w)

\* c is blocked inside a blocking acquire.
Waiting(c) == cam[c] = "acquire" /\ blocking[c]

C15_ReleaseFrees ==
    [][\A c \in Clients :
          /\ (cam[c] = "rel_clear" /\ cam'[c] # cam[c])
             => (purpose' = "none" /\ cam'[c] = "rel_unlock")
          /\ (cam[c] = "rel_unlock" /\ cam'[c] # cam[c])
             => /\ cam'[c] = "released"
                /\ InUse' = "none" /\ ~lockHeld' /\ LeaseHolders' = {}
                /\ TryLock' /\ LockFree']_vars

\* C15 witness: a caller has released its lease and another caller has
\* acquired the camera after it.
C15_Witness ==
    \E c, n \in Clients :
        /\ cam[c] = "released" /\ released[c]
        /\ cam[n] = "leased" /\ InUse = leasePurpose[n]

(***************************************************************************)
(* Properties of RunModeController.                                        *)
(***************************************************************************)
\* The recording tasks in the Recording state: recording_active has been set
\* by the task and its finally clause has not yet cleared it.
Recording == {r \in RecThreads : rpc[r] \in {"record", "fin_active"}}

\* The step by which _handle_motion starts recording task r.
Spawns(r) == rpc[r] # "lock" /\ rpc'[r] = "lock"

\* The step by which task r enters the Recording state.
EntersRecording(r) == rpc[r] = "acquire" /\ rpc'[r] # "acquire"

\* The step by which task r, which held the camera lease, exits.
Exits(r) == rpc[r] = "unlock" /\ rpc'[r] = "dead"

\* C3: at most one recording task is in the Recording state, and a task in
\* the Recording state is the one holder of the camera lease.
C3_OneRecording ==
    /\ Cardinality(Recording) <= 1
    /\ \A r \in Recording : LeaseHolders = {r} /\ lockHeld

\* C3 witness: a task is recording while a snapshot or stream request has
\* just been refused the camera.
C3_Witness ==
    \E r \in RecThreads, h \in Http :
        /\ rpc[r] = "record" /\ recordingActive
        /\ cam[h] = "busy"
        /\ lastRecordingEnd >= StartTime

\* C4: no recording task is started less than recording_min_gap_seconds
\* after the time the previous recording stamped as its end.
C4_Cooldown ==
    [][\A r \in RecThreads :
         Spawns(r) => clock - lastRecordingEnd >= RecordingMinGap]_vars

\* C5: the checks of _handle_motion and the transition into the Recording
\* state are one critical section: when a task enters the Recording state no
\* recording is active, the cooldown has run out and no other recording
\* task is alive.
C5_SerializedStart ==
    [][\A r \in RecThreads :
         EntersRecording(r) =>
             /\ ~recordingActive
             /\ ~InCooldown(clock, lastRecordingEnd)
             /\ \A q \in RecThreads \ {r} : ~RecAlive(q)]_vars

\* C6: when a recording task that took the camera lease exits,
\* recording_active is false, its lease is released and last_recording_end
\* has been stamped since the task took the lease.
C6_Cleanup ==
    [][\A r \in RecThreads :
         Exits(r) =>
             /\ ~recordingActive'
             /\ released[r] /\ r \notin LeaseHolders'
             /\ lastRecordingEnd' >= rpath[r]]_vars

\* The time of day is inside one of the configured quiet windows.
Asleep ==
    \E i \in DOMAIN sleepWindows :
        LET w == sleepWindows[i]
            t == clock - StartTime
        IN  IF w.start <= w.end THEN w.start <= t /\ t < w.end
            ELSE t >= w.start \/ t < w.end

\* C16: a loop iteration that begins in quiet hours goes to the backoff wait
\* and from there back to the loop test; it evaluates no motion predicate
\* and starts no recording task.
C16_QuietHours ==
    [][\A m \in Loops :
         /\ (mpc[m] = "top" /\ mpc'[m] # mpc[m] /\ ~stopEvent /\ Asleep)
            => /\ mpc'[m] = "backoff"
               /\ rpc' = rpc /\ recordingThread' = recordingThread
         /\ (mpc[m] = "backoff" /\ mpc'[m] # mpc[m])
            => /\ mpc'[m] = "top"
               /\ rpc' = rpc /\ recordingThread' = recordingThread]_vars

\* C16 witness: the loop is in its backoff wait during quiet hours, with a
\* motion sensor configured and no recording under way.
C16_Witness ==
    \E m \in Loops :
        /\ mpc[m] = "backoff" /\ Asleep
        /\ gpio /\ hasPir /\ ~recordingActive
        /\ \A r \in RecThreads : ~RecAlive(r)

\* C17: without motion sensor hardware the timer keeps captures coming: a
\* trigger handled while no recording task is alive is not turned away as
\* "recording already active" but goes on to the cooldown test (which the
\* timer predicate has already passed) and to a new task.
C17_TimerKeepsCapturing ==
    [][\A m \in Loops :
         (mpc[m] = "hm_active" /\ mpc'[m] # mpc[m] /\ ~hasPir
            /\ \A r \in RecThreads : ~RecAlive(r))
         => mpc'[m] = "hm_cooldown"]_vars

\* C18: stop() sets the stop event; once past that it always returns, whatever
\* the recording thread is doing; and a motion loop that is alive while the
\* event is set terminates.
C18_StopReturns ==
    /\ [][\A k \in Ctl : (spc[k] = "idle" /\ spc'[k] = "join_motion") => stopEvent']_vars
    /\ \A k \in Ctl : (spc[k] \in {"join_motion", "join_rec"}) ~> (spc[k] = "idle")
    /\ \A m \in Loops : (stopEvent /\ mpc[m] \notin {"none", "dead"}) ~> (mpc[m] = "dead")

\* C18 witness: stop() has returned and the motion loop has ended while the
\* recording thread is still blocked in its camera acquire.
C18_Witness ==
    \E k \in Ctl, r \in RecThreads :
        /\ spc[k] = "idle" /\ stopEvent
        /\ motionThread # "none" /\ mpc[motionThread] = "dead"
        /\ rpc[r] = "acquire" /\ Waiting(r) /\ lockHeld

\* C19: whatever start() and stop() calls are made, concurrent ones included,
\* at most one motion polling loop thread is alive.
C19_OneLoop == Cardinality({m \in Loops : LoopAlive(m)}) <= 1

\* record_video raised in thread r and the except clause has run
CaptureFailed(r) == rresult[r] \in {"failed_clean", "failed_left"}

\* the capture in r fails in this step
CaptureFails(r) == rpc[r] = "record" /\ rpc'[r] = "fin_active" /\ rresult'[r] # "saved"

\* r ends in this step, after a failed capture
EndsFailed(r) == rpc[r] = "unlock" /\ rpc'[r] = "dead" /\ CaptureFailed(r)

\* What a failed capture leaves alone, and what the end of its thread leaves
\* behind: no recording active, the recording lock free, no lease of r on the
\* camera, and a cooldown counted from a stamp that is not in the future.
Absorbed(r) ==
    /\ CaptureFails(r) =>
         /\ recordingPath' = recordingPath
         /\ mpc' = mpc /\ stopEvent' = stopEvent
    /\ EndsFailed(r) =>
         /\ ~recordingActive' /\ recLock' = "none"
         /\ cam'[r] = "idle"
         /\ lastRecordingEnd' <= clock'
         /\ mpc' = mpc

\* C20 as stated: a failed capture is absorbed and its partial file is deleted.
C20_FailureAbsorbed ==
    [][\A r \in RecThreads :
         /\ Absorbed(r)
         /\ CaptureFails(r) => rresult'[r] = "failed_clean"]_vars

\* C20, corrected: a failed capture is absorbed; its partial file is deleted
\* unless unlink raises OSError, which is passed over and leaves the file.
C20_FailureAbsorbedBestEffort ==
    [][\A r \in RecThreads :
         /\ Absorbed(r)
         /\ CaptureFails(r) => rresult'[r] \in {"failed_clean", "failed_left"}]_vars

\* C20 witness: after a failed capture whose thread has ended, a later trigger
\* has started a new recording thread while the motion loop is running.
C20_Witness ==
    \E r \in RecThreads, m \in Loops :
        /\ rpc[r] = "acquire" /\ recordingThread = r
        /\ LoopAlive(m)
        /\ lastRecordingEnd > 0 /\ recordingPath = 0 /\ ~recordingActive

(***************************************************************************)
(* Claims about the SleepScheduler on its own.                             *)
(***************************************************************************)
\* is_sleep_time has been called
Answered == swNow # 0

\* the time of day of the last call
AskedAt == swNow - StartTime

\* C21: when no window of the scheduler spans midnight, is_sleep_time(now) is
\* true iff some window has start <= time of day of now < end.
C21_HalfOpenWindows ==
    (Answered /\ \A i \in 1..Len(swWindows) : swWindows[i].start <= swWindows[i].end)
    => swAnswer = (\E i \in 1..Len(swWindows) :
                      swWindows[i].start <= AskedAt /\ AskedAt < swWindows[i].end)

\* C21 witness: a window 00:00-01:00 or the like asked about at its start
\* bound, and the answer is yes.
C21_Witness ==
    /\ Answered /\ swAnswer = TRUE
    /\ Len(swWindows) = 1
    /\ swWindows[1].start < swWindows[1].end
    /\ AskedAt = swWindows[1].start

\* C22: a window with start > end contains the times from start to midnight
\* and from midnight to end, and no time from end up to start.
C22_WraparoundWindows ==
    Answered =>
      /\ \A i \in 1..Len(swWindows) :
           (/\ swWindows[i].start > swWindows[i].end
            /\ AskedAt >= swWindows[i].start \/ AskedAt < swWindows[i].end)
           => swAnswer = TRUE
      /\ (Len(swWindows) = 1 /\ swWindows[1].start > swWindows[1].end
            /\ swWindows[1].end <= AskedAt /\ AskedAt < swWindows[1].start)
         => swAnswer = FALSE

\* C22 witness: the window 23:59-01:00 asked about after midnight, and the
\* answer is yes.
C22_Witness ==
    /\ Answered /\ swAnswer = TRUE
    /\ Len(swWindows) = 1
    /\ swWindows[1].start > swWindows[1].end
    /\ AskedAt < swWindows[1].end

\* a bound of the form HH:MM with hour 0..23 and minute 0..59
IsHHMM(value) ==
    /\ Len(value) = 2
    /\ value[1].int /\ value[2].int
    /\ value[1].n \in 0..23 /\ value[2].n \in 0..59

\* an entry with both bounds, both of that form
WellFormed(window) ==
    /\ {"start", "end"} \subseteq DOMAIN window
    /\ IsHHMM(window["start"]) /\ IsHHMM(window["end"])

\* the windows of the well-formed entries of a configuration, in its order
Kept(config) ==
    LET good == SelectSeq(config, WellFormed) IN
      [i \in 1..Len(good) |->
         [start |-> TimeOf(good[i]["start"][1].n, good[i]["start"][2].n, 0),
          end   |-> TimeOf(good[i]["end"][1].n, good[i]["end"][2].n, 0)]]

\* C23: construction never raises; the scheduler holds exactly the windows of
\* the well-formed entries; with none of them is_sleep_time answers no.
C23_MalformedDropped ==
    /\ swState # "raised"
    /\ swState = "built" => swWindows = Kept(swConfig)
    /\ (Answered /\ Len(swWindows) = 0) => swAnswer = FALSE

\* C23 witness: a scheduler built from a list with a malformed entry and a
\* well-formed one keeps one window.
C23_Witness ==
    /\ swState = "built"
    /\ Len(swConfig) = 2 /\ Len(swWindows) = 1
    /\ ~WellFormed(swConfig[1]) /\ WellFormed(swConfig[2])

(***************************************************************************)
(* Claims about the BatteryEstimator.                                      *)
(***************************************************************************)
\* record_sample returned an estimate
Estimated == bOut.kind = "estimate"

\* this step is a record_sample call
Samples == bCall'.n = bCall.n + 1

\* C24: every returned soc_pct is within 0..100 %; a voltage of 4.20 V or
\* more reads 100 %, one of 3.35 V or less reads 0 %; and two calls with the
\* same voltage return the same voltage_soc_pct.
C24_SocClamped ==
    /\ [](Estimated =>
            /\ 0 <= bOut.est.soc_pct /\ bOut.est.soc_pct <= Pct(100)
            /\ bCall.voltage >= 4200 => bOut.est.voltage_soc_pct = Pct(100)
            /\ bCall.voltage <= 3350 => bOut.est.voltage_soc_pct = 0)
    /\ [][(Samples /\ Estimated /\ bOut'.kind = "estimate"
             /\ bCall'.voltage = bCall.voltage)
          => bOut'.est.voltage_soc_pct = bOut.est.voltage_soc_pct]_vars

\* C24 witness: a second call at 5.0 V, with the coulomb counter at 0 %,
\* returns 100 % from the voltage and 50 % blended.
C24_Witness ==
    /\ Estimated /\ bCall.n = 2 /\ bCall.voltage = 5000
    /\ bOut.est.voltage_soc_pct = Pct(100)
    /\ bOut.est.coulomb_soc_pct = 0
    /\ bOut.est.soc_pct = Pct(50)

\* C25: the coulomb SoC is unset or within 0..1 and both accumulators are
\* >= 0; a discharging sample never raises a coulomb SoC that is set, a
\* charging sample never lowers it.
C25_CoulombInRange ==
    /\ [](/\ bState.soc_coulomb = Unset
             \/ (0 <= bState.soc_coulomb /\ bState.soc_coulomb <= SocFull)
          /\ bState.discharge_since_full_ah >= 0
          /\ bState.charge_since_empty_ah >= 0)
    /\ [][(Samples /\ bState.soc_coulomb # Unset) =>
            /\ bCall'.flow = "discharging" => bState'.soc_coulomb <= bState.soc_coulomb
            /\ bCall'.flow = "charging" => bState'.soc_coulomb >= bState.soc_coulomb]_vars

\* C25 witness: a discharge larger than what the counter held, at a voltage
\* inside the curve, has left the counter at 0.
C25_Witness ==
    /\ bCall.n >= 1 /\ bCall.flow = "discharging" /\ bCall.voltage = 3725
    /\ bCall.current = 3600
    /\ bState.soc_coulomb = 0
    /\ bState.discharge_since_full_ah > 0

\* the sample of this step comes after a gap that is not in 1..600 seconds,
\* or after a sample of another direction, or of no direction
NotCounted ==
    \/ bState.last_timestamp = Unset
    \/ bCall'.timestamp - bState.last_timestamp <= 0
    \/ bCall'.timestamp - bState.last_timestamp > 600
    \/ ~(\/ bState.last_flow = "discharging" /\ bCall'.flow = "discharging"
         \/ bState.last_flow = "charging" /\ bCall'.flow = "charging")

\* the sample of this step is a near-full or a near-empty event
NearFull == bCall'.flow = "charging" /\ bCall'.voltage >= 4150
NearEmpty == bCall'.flow = "discharging" /\ bCall'.voltage <= 3400

\* C26: such a sample adds nothing to the two accumulators and leaves the
\* coulomb SoC as it was, but for the reset and the pin of a near-full or
\* near-empty event.
C26_NoIntegrationAcrossGaps ==
    [][(Samples /\ NotCounted) =>
         /\ bState'.discharge_since_full_ah =
               IF NearFull THEN 0 ELSE bState.discharge_since_full_ah
         /\ bState'.charge_since_empty_ah =
               IF NearFull \/ NearEmpty THEN 0 ELSE bState.charge_since_empty_ah
         /\ bState'.soc_coulomb =
               IF NearFull THEN SocFull
               ELSE IF NearEmpty THEN 0 ELSE bState.soc_coulomb]_vars

\* C26 witness: a discharging sample 601 seconds after the last discharging
\* sample of a saved history, with the counters of that history untouched.
C26_Witness ==
    LET before == Replay(DefaultState, DrawnHistory, 1) IN
      /\ bCall.n = 1 /\ bCall.flow = "discharging" /\ bCall.voltage = 3725
      /\ bCall.timestamp = before.last_timestamp + 601
      /\ bState.discharge_since_full_ah = before.discharge_since_full_ah
      /\ bState.soc_coulomb = before.soc_coulomb
      /\ before.last_flow = "discharging" /\ before.soc_coulomb # Unset

\* C27: a record_sample that has updated the state returns the estimate of
\* the updated state, whether or not the state file could be written, and a
\* write that works leaves the current state in the file.
C27_SaveFailureNotFatal ==
    [][(Samples /\ bState' # bState) =>
         /\ bOut'.kind = "estimate"
         /\ bOut'.est = BuildEstimate(bState', bCall'.voltage, bCall'.current,
                                      bCall'.flow, bCall'.nominal)
         /\ bFile'.kind = "state" => bFile'.state = bState']_vars

\* C28: constructing an estimator never raises, and beside a file that does
\* not hold a saved state it starts from the defaults.
C28_CorruptResets ==
    /\ bObj # "raised"
    /\ (bObj = "ready" /\ bCall.n = 0 /\ bFile.kind # "state") => bState = DefaultState

\* time_to_empty_hours by the rule: discharging, |current| >= 50 mA, and
\* something left
EmptyRule ==
    LET available == bOut.est.capacity_mah * bOut.est.soc_pct IN
      IF bCall.flow = "discharging" /\ Abs(bCall.current) >= 50 /\ available > 0
      THEN available \div Abs(bCall.current) ELSE Unset

\* time_to_full_hours by the symmetric rule
FullRule ==
    LET needed == bOut.est.capacity_mah * (Pct(100) - bOut.est.soc_pct) IN
      IF bCall.flow = "charging" /\ Abs(bCall.current) >= 50 /\ needed > 0
      THEN needed \div Abs(bCall.current) ELSE Unset

\* C29: both projections follow their rule, and are never both set.
C29_RuntimeProjection ==
    Estimated =>
      /\ bOut.est.time_to_empty_hours = EmptyRule
      /\ bOut.est.time_to_full_hours = FullRule
      /\ bOut.est.time_to_empty_hours = Unset \/ bOut.est.time_to_full_hours = Unset

\* the capacity observed at the near-full sample of this step
Observed == bState.discharge_since_full_ah \div SocFull

\* a full cycle has been drawn before the near-full sample of this step
Cycled == bState.discharge_since_full_ah * MinCycleDiv >= Max(100, bCall'.nominal) * SocFull

\* what every near-full sample does
NearFullResets ==
    /\ bState'.discharge_since_full_ah = 0
    /\ bState'.charge_since_empty_ah = 0
    /\ bState'.soc_coulomb = SocFull

C31_SocBlending ==
    /\ [](Estimated =>
            IF bState.soc_coulomb # Unset
            THEN /\ bOut.est.coulomb_soc_pct = bState.soc_coulomb
                 /\ bOut.est.soc_pct =
                       (bOut.est.voltage_soc_pct + bOut.est.coulomb_soc_pct) \div 2
            ELSE /\ bOut.est.coulomb_soc_pct = Unset
                 /\ bOut.est.soc_pct = bOut.est.voltage_soc_pct)
    /\ [][(Samples /\ bState.soc_coulomb = Unset /\ bState'.soc_coulomb # Unset)
          => (NearFull \/ NearEmpty)]_vars

\* C31 witness: after a near-empty sample has set the coulomb SoC to 0 %, the
\* estimate of a second sample, at a voltage read as v %, is v/2 % and not v %.
C31_Witness ==
    /\ Estimated /\ bCall.n = 2 /\ bCall.flow = "charging" /\ bCall.voltage = 3725
    /\ bOut.est.coulomb_soc_pct = 0
    /\ bOut.est.voltage_soc_pct > 0
    /\ bOut.est.soc_pct = bOut.est.voltage_soc_pct \div 2


(***************************************************************************)
(* Claims about the leases of the run-mode process.                        *)
(***************************************************************************)
\* the user of c's lease has finished: the recording thread has ended, the
\* HTTP request is over
UserDone(c) ==
    IF c \in RecThreads THEN rpc[c] \in {"none", "dead"}
    ELSE cam[c] \in {"idle", "dropped"}

\* C32: no recording task, snapshot request or stream request that has
\* finished still holds a camera lease.
C32_ScopedRelease == \A c \in Clients : UserDone(c) => c \notin LeaseHolders


\* the step in which loop m finds is_sleep_time(now) true
ObservesSleep(m) == mpc[m] = "top" /\ mpc'[m] = "backoff"

\* record_video is running in r
Capturing(r) == rpc[r] = "record"

\* C33: when the motion loop finds quiet hours begun while a recording is
\* active, the recording is stopped: the step sets the stop signal that
\* record_video polls, or ends the capture itself.
C33_SleepStopsRecording ==
    [][\A m \in Loops, r \in RecThreads :
         (ObservesSleep(m) /\ recordingActive /\ Capturing(r))
         => (stopEvent' \/ ~Capturing(r)')]_vars


\* C34: while recording_active is true, the camera lease is held and
\* in_use() reports the purpose "record".
C34_StatusConsistent ==
    recordingActive => (InUse = "record" /\ lockHeld /\ LeaseHolders \subseteq RecThreads)


\* C35: when in_use() reports a purpose, the lock is held by a lease that
\* was acquired with that purpose and has not given the lock back; when no
\* lease is held, in_use() reports none.
C35_NoPhantomOwner ==
    /\ InUse # "none" =>
          /\ lockHeld
          /\ \E c \in LeaseHolders : leasePurpose[c] = InUse /\ cam[c] # "set_purpose"
    /\ LeaseHolders = {} => InUse = "none"

\* C35 witness: in_use() reports "record" for the lease a caller holds,
\* after a stream has released its lease and while a snapshot is refused.
C35_Witness ==
    \E c, w, n \in Clients :
        /\ cam[c] = "leased" /\ leasePurpose[c] = "record" /\ InUse = "record"
        /\ cam[w] = "released" /\ leasePurpose[w] = "stream"
        /\ cam[n] = "busy"


\* C36: while the stop event is set (stop() has been called and no start()
\* has cleared the event since), no recording task enters the Recording
\* state.
C36_NoRecordingAfterStop ==
    [][\A r \in RecThreads : stopEvent => ~EntersRecording(r)]_vars


\* the step in which start() returns to caller k
StartReturns(k) == spc[k] \in {"start_return", "start_thread"} /\ spc'[k] = "idle"

\* C37: when start() returns, a motion loop is alive and the stop event is
\* clear.
C37_StartRestarts ==
    [][\A k \in Ctl :
         StartReturns(k) => (LoopAlive(motionThread) /\ ~stopEvent)']_vars


(***************************************************************************)
(* Frame of a failed ModeRegistry.acquire.                                 *)
(***************************************************************************)
\* the step in which p's acquire raises the Conflict error
Conflicts(p) ==
    /\ alive[p] /\ alive'[p] /\ call[p] = "acquire"
    /\ ppc[p] # "idle" /\ ppc'[p] = "idle" /\ last'[p].kind = "rec"

\* a step taken by p outside acquire: release(), or the end of the process
OutsideAcquire(p) ==
    /\ alive[p] /\ call[p] # "acquire" /\ call'[p] # "acquire"
    /\ (ppc'[p] # ppc[p] \/ ~alive'[p])

\* C38: an acquire that fails with Conflict leaves the record and the
\* holder mark as they were; a process that is not marked as holder never
\* gets past the first test of release(), and nothing it does outside
\* acquire, its exit included, changes the file.
C38_FailedAcquireNoEffect ==
    /\ [](\A p \in Pids : (alive[p] /\ call[p] = "release") => acquired[p])
    /\ [][\A p \in Pids :
            /\ Conflicts(p) =>
                  /\ file' = file
                  /\ acquired'[p] = acquired[p] /\ opMode'[p] = opMode[p]
            /\ (OutsideAcquire(p) /\ ~acquired[p]) => file' = file]_vars

\* C38 witness: p has been refused because of the record of a live holder q
\* of this machine, is not marked as holder, and q's record is in place.
C38_Witness ==
    \E p, q \in Pids :
        /\ p # q /\ alive[p] /\ ppc[p] = "idle" /\ ~acquired[p]
        /\ last[p] = file /\ file.kind = "rec" /\ file.pid = q
        /\ Holds(q) /\ ppc[q] = "idle"


\* C39: a lease enters _release only while it is unreleased and holds the
\* lock, so the lock is freed once per lease and never while unlocked; once
\* released, a further release() of the lease is no step at all: the only
\* thing its owner still does is drop it, and that leaves the lock and the
\* recorded purpose, another caller's included, as they are.
C39_ReleaseIdempotent ==
    /\ [](\A c \in Clients :
            cam[c] \in {"rel_clear", "rel_unlock"} =>
               (~released[c] /\ lockHeld /\ LeaseHolders = {c}))
    /\ [][\A c \in Clients :
            (cam[c] = "released" /\ cam'[c] # cam[c]) =>
               /\ released[c] /\ cam'[c] = "idle"
               /\ lockHeld' = lockHeld /\ purpose' = purpose]_vars

\* C39 witness: c still has the lease it released, another caller has
\* acquired the camera in the meantime, and a third is blocked behind it.
C39_Witness ==
    \E c, n, w \in Clients :
        /\ cam[c] = "released" /\ released[c]
        /\ cam[n] = "leased" /\ InUse = leasePurpose[n] /\ lockHeld
        /\ Waiting(w)

====
